---------------------------- MODULE Spec2Model ----------------------------
(***************************************************************************)
(* string-metrics-wasm: the TypeScript facade (src/src/wasm.ts) over the   *)
(* metric engine.  The facade's functions are pure, so the state is one    *)
(* call (the function and its arguments) and what that call returned.      *)
(*                                                                         *)
(* Strings are sequences of characters; a character is a one-character     *)
(* TLA+ string.  JavaScript numbers are modelled by exact rationals.       *)
(* The metric engine itself (the wasm bindings `wasm.*`) is not part of    *)
(* the TypeScript sources; the engine operators below follow the           *)
(* specification's description of it.                                      *)
(***************************************************************************)
EXTENDS Integers, Sequences, FiniteSets, TLC

VARIABLES call, result

vars == <<call, result>>

-----------------------------------------------------------------------------
(* Bounds of the model.                                                    *)

\* longest input string of the token-ratio functions
MaxLen == 4

\* longest input string of distance and score
MaxMetricLen == 3

\* longest list of choices given to extractOne / extract
MaxChoices == 3

\* longest list of candidates given to suggest
MaxCandidates == 3

\* largest limit / maxSuggestions given
MaxLimit == 2

\* longest string given to substringSimilarity, in code units
MaxSubLen == 3

\* longest two-letter string given to the engine's exports directly
MaxRawLen == 3

\* longest string given to normalize
MaxNormLen == 3

\* longest list of choices or candidates a caller keeps between calls
MaxSessionChoices == 2

\* longest string a caller keeps between calls of the token-ratio functions
MaxSessionLen == 3

\* number of calls a caller makes with the arguments it keeps
MaxCalls == 2

\* longest string with surrogates given to partialRatio, in code units
MaxUnitLen == 3

\* longest list given with options in both spellings
MaxOptionChoices == 2

\* longest string of a pair given in both orders
MaxSwapLen == 3

-----------------------------------------------------------------------------
(* Exact rational numbers [n, d] in lowest terms, d > 0.                   *)

Abs(x) == IF x < 0 THEN -x ELSE x

RECURSIVE GCD(_, _)
GCD(x, y) == IF y = 0 THEN x ELSE GCD(y, x % y)

Rat(n, d) ==
  LET g == GCD(Abs(n), d)
  IN  [n |-> n \div g, d |-> d \div g]

RatInt(k) == [n |-> k, d |-> 1]

RatAdd(x, y) == Rat(x.n * y.d + y.n * x.d, x.d * y.d)
RatSub(x, y) == Rat(x.n * y.d - y.n * x.d, x.d * y.d)
RatMul(x, y) == Rat(x.n * y.n, x.d * y.d)
RatDivInt(x, k) == Rat(x.n, x.d * k)
RatLT(x, y) == x.n * y.d < y.n * x.d
RatLE(x, y) == x.n * y.d <= y.n * x.d
RatGE(x, y) == RatLE(y, x)
RatGT(x, y) == RatLT(y, x)
RatMax(x, y) == IF RatLT(x, y) THEN y ELSE x
RatMin(x, y) == IF RatLT(y, x) THEN y ELSE x

RECURSIVE RatMaxOf(_)
\* Math.max(...scores) of a non-empty list
RatMaxOf(s) ==
  IF Len(s) = 1 THEN s[1] ELSE RatMax(s[1], RatMaxOf(Tail(s)))

-----------------------------------------------------------------------------
(* Strings.                                                                *)

\* the characters of the model, in ascending code-unit order
CharOrder == <<" ", "A", "a", "b">>

CodeOf(c) == CHOOSE i \in 1..Len(CharOrder) : CharOrder[i] = c

IsSpace(c) == c = " "

RECURSIVE StrLess(_, _)
\* s sorts before t in code-unit order (Array.prototype.sort's default order)
StrLess(s, t) ==
  IF t = <<>> THEN FALSE
  ELSE IF s = <<>> THEN TRUE
  ELSE IF s[1] # t[1] THEN CodeOf(s[1]) < CodeOf(t[1])
  ELSE StrLess(Tail(s), Tail(t))

\* all strings over alphabet A of length at most k
StringsOver(A, k) == UNION {[1..n -> A] : n \in 0..k}


\* String.prototype.includes: t occurs in s as a contiguous run
Includes(s, t) ==
  \E i \in 0..(Len(s) - Len(t)) : SubSeq(s, i + 1, i + Len(t)) = t

\* String.prototype.substring(from, to) for 0 <= from <= to (0-based, half-open)
Substring(s, from, to) ==
  SubSeq(s, from + 1, IF to > Len(s) THEN Len(s) ELSE to)

\* String.prototype.startsWith
StartsWith(s, t) == Len(t) <= Len(s) /\ SubSeq(s, 1, Len(t)) = t

RECURSIVE TrimStart(_)
TrimStart(s) ==
  IF s # <<>> /\ IsSpace(s[1]) THEN TrimStart(Tail(s)) ELSE s

RECURSIVE TrimEnd(_)
TrimEnd(s) ==
  IF s # <<>> /\ IsSpace(s[Len(s)]) THEN TrimEnd(SubSeq(s, 1, Len(s) - 1)) ELSE s

\* String.prototype.trim
Trim(s) == TrimEnd(TrimStart(s))

RECURSIVE SplitFrom(_, _, _, _)
\* str.split(/\s+/): the pieces between maximal runs of whitespace, empty
\* pieces included ("" splits into [""])
SplitFrom(s, i, cur, acc) ==
  IF i > Len(s) THEN Append(acc, cur)
  ELSE IF IsSpace(s[i])
       THEN IF i > 1 /\ IsSpace(s[i - 1])
            THEN SplitFrom(s, i + 1, cur, acc)
            ELSE SplitFrom(s, i + 1, <<>>, Append(acc, cur))
       ELSE SplitFrom(s, i + 1, Append(cur, s[i]), acc)

SplitWhitespace(s) == SplitFrom(s, 1, <<>>, <<>>)

RECURSIVE JoinWith(_, _)
\* Array.prototype.join(sep)
JoinWith(seq, sep) ==
  IF seq = <<>> THEN <<>>
  ELSE IF Len(seq) = 1 THEN seq[1]
  ELSE seq[1] \o sep \o JoinWith(Tail(seq), sep)

RECURSIVE InsertSorted(_, _)
\* x placed after every element that does not sort after it
InsertSorted(sorted, x) ==
  IF sorted = <<>> THEN <<x>>
  ELSE IF StrLess(x, sorted[1]) THEN <<x>> \o sorted
  ELSE <<sorted[1]>> \o InsertSorted(Tail(sorted), x)

RECURSIVE SortStrings(_)
\* Array.prototype.sort() without a comparator: ascending code-unit order
SortStrings(seq) ==
  IF seq = <<>> THEN <<>>
  ELSE InsertSorted(SortStrings(SubSeq(seq, 1, Len(seq) - 1)), seq[Len(seq)])

\* the elements of a sequence
Range(seq) == {seq[i] : i \in 1..Len(seq)}

\* [...new Set(seq)]: first occurrences, in insertion order
SetOf(seq) ==
  SelectSeq([i \in 1..Len(seq) |->
               [v |-> seq[i], first |-> \A j \in 1..(i - 1) : seq[j] # seq[i]]],
            LAMBDA e : e.first)

Values(entries) == [i \in 1..Len(entries) |-> entries[i].v]

-----------------------------------------------------------------------------
(* Optional values and thrown errors.  An options object is a record that   *)
(* has a field exactly when the caller gave it a value.                    *)

\* `obj.field ?? dflt` (also a parameter default): the value given, else dflt
Nullish(obj, field, dflt) == IF field \in DOMAIN obj THEN obj[field] ELSE dflt

\* what evaluating a function body ends in: a value, or a thrown Error
Ok(v) == [ok |-> TRUE, value |-> v]
Throw(msg) == [ok |-> FALSE, message |-> msg]

-----------------------------------------------------------------------------
(* The metric engine (wasm bindings), as the specification describes it.   *)

RECURSIVE LcsLen(_, _)
\* length of the longest common subsequence
LcsLen(a, b) ==
  IF a = <<>> \/ b = <<>> THEN 0
  ELSE IF a[1] = b[1] THEN 1 + LcsLen(Tail(a), Tail(b))
  ELSE LET x == LcsLen(Tail(a), b)
           y == LcsLen(a, Tail(b))
       IN  IF x < y THEN y ELSE x

\* insertions and deletions only: m + n - 2 * LCS
indel_distance(a, b) == Len(a) + Len(b) - 2 * LcsLen(a, b)

\* 1 - distance / (m + n); 1 for two empty strings
indel_normalized_similarity(a, b) ==
  IF Len(a) + Len(b) = 0 THEN RatInt(1)
  ELSE RatSub(RatInt(1), Rat(indel_distance(a, b), Len(a) + Len(b)))

\* A string is a sequence of UTF-16 code units.  "H" stands for a high
\* surrogate and "L" for a low surrogate: "H" followed by "L" encodes one
\* character outside the Basic Multilingual Plane, written "HL" where it is
\* one element of a sequence.
HighSurrogate == "H"
LowSurrogate == "L"

Surrogates == {HighSurrogate, LowSurrogate}

RECURSIVE ScalarsFrom(_, _)
ScalarsFrom(s, i) ==
  IF i > Len(s) THEN <<>>
  ELSE IF s[i] = HighSurrogate /\ i < Len(s) /\ s[i + 1] = LowSurrogate
       THEN <<"HL">> \o ScalarsFrom(s, i + 2)
       ELSE <<(IF s[i] \in Surrogates THEN "FFFD" ELSE s[i])>>
              \o ScalarsFrom(s, i + 1)

\* the string as the engine receives it, a sequence of Unicode scalar values:
\* a surrogate pair is one value and a surrogate without its partner arrives
\* as the replacement character U+FFFD
ToScalarValues(s) ==
  IF \A i \in 1..Len(s) : s[i] \notin Surrogates THEN s ELSE ScalarsFrom(s, 1)

\* ratio(a, b) = indel_normalized_similarity(a, b) * 100
ratio(a, b) ==
  RatMul(indel_normalized_similarity(ToScalarValues(a), ToScalarValues(b)),
         RatInt(100))


Min2(x, y) == IF x < y THEN x ELSE y
Max2(x, y) == IF x < y THEN y ELSE x
Min3(x, y, z) == Min2(x, Min2(y, z))

\* cell (i, j) of an (m+1) x (n+1) matrix stored row by row
At(M, n, i, j) == M[i * (n + 1) + j + 1]

\* substitution cost
Cost(a, b, i, j) == IF a[i] = b[j] THEN 0 ELSE 1

\* LevCell with an insertion of cost 2
LevCellCostlyInsert(a, b, i, j, M) ==
  IF i = 0 THEN 2 * j
  ELSE IF j = 0 THEN i
  ELSE Min3(At(M, Len(b), i - 1, j) + 1,
            At(M, Len(b), i, j - 1) + 2,
            At(M, Len(b), i - 1, j - 1) + Cost(a, b, i, j))

\* Levenshtein recurrence: insert, delete, substitute, each of cost 1
LevCell(a, b, i, j, M) ==
  IF i = 0 THEN j
  ELSE IF j = 0 THEN i
  ELSE Min3(At(M, Len(b), i - 1, j) + 1,
            At(M, Len(b), i, j - 1) + 1,
            At(M, Len(b), i - 1, j - 1) + Cost(a, b, i, j))

\* OSA recurrence: Levenshtein plus the swap of two adjacent characters
OsaCell(a, b, i, j, M) ==
  LET base == LevCell(a, b, i, j, M)
  IN  IF i > 1 /\ j > 1 /\ a[i] = b[j - 1] /\ a[i - 1] = b[j]
      THEN Min2(base, At(M, Len(b), i - 2, j - 2) + 1)
      ELSE base

\* unrestricted Damerau-Levenshtein recurrence: a transposition may span the
\* characters between the last occurrences of the two characters
DamerauCell(a, b, i, j, M) ==
  LET base == LevCell(a, b, i, j, M)
      ks == {k \in 1..(i - 1) : a[k] = b[j]}
      ls == {l \in 1..(j - 1) : b[l] = a[i]}
  IN  IF i > 0 /\ j > 0 /\ ks # {} /\ ls # {}
      THEN LET k == CHOOSE x \in ks : \A y \in ks : y <= x
               l == CHOOSE x \in ls : \A y \in ls : y <= x
           IN  Min2(base,
                    At(M, Len(b), k - 1, l - 1) + (i - k - 1) + 1 + (j - l - 1))
      ELSE base

\* the recurrence of one of the three edit distances
Cell(kind, a, b, i, j, M) ==
  CASE kind = "levenshtein" -> LevCell(a, b, i, j, M)
    [] kind = "osa" -> OsaCell(a, b, i, j, M)
    [] kind = "damerau" -> DamerauCell(a, b, i, j, M)

RECURSIVE FillMatrix(_, _, _, _, _)
\* the matrix filled in row-major order from cell number c on
FillMatrix(kind, a, b, c, M) ==
  IF c = (Len(a) + 1) * (Len(b) + 1) THEN M
  ELSE FillMatrix(kind, a, b, c + 1,
                  Append(M, Cell(kind, a, b,
                                 c \div (Len(b) + 1), c % (Len(b) + 1), M)))

EditDistance(kind, a, b) ==
  At(FillMatrix(kind, a, b, 0, <<>>), Len(b), Len(a), Len(b))

\* NormalizedByMax that returns the normalized distance, distance / max(m, n)
NormalizedDistanceByMax(a, b, dist) ==
  IF Len(a) = 0 /\ Len(b) = 0 THEN RatInt(0)
  ELSE Rat(dist, Max2(Len(a), Len(b)))

\* 1 - distance / max(m, n); 1 for two empty strings
NormalizedByMax(a, b, dist) ==
  IF Len(a) = 0 /\ Len(b) = 0 THEN RatInt(1)
  ELSE RatSub(RatInt(1), Rat(dist, Max2(Len(a), Len(b))))

levenshtein(a, b) == EditDistance("levenshtein", a, b)
normalized_levenshtein(a, b) == NormalizedByMax(a, b, levenshtein(a, b))

osa_distance(a, b) == EditDistance("osa", a, b)
normalized_osa_similarity(a, b) == NormalizedByMax(a, b, osa_distance(a, b))

damerau_levenshtein(a, b) == EditDistance("damerau", a, b)
normalized_damerau_levenshtein(a, b) ==
  NormalizedByMax(a, b, damerau_levenshtein(a, b))

\* LCS-sequence, as the README documents its results
\* (lcs_seq_distance('AGGTAB', 'GXTXAYB') is 3 and the normalized similarity
\* 0.5714, with m = 6, n = 7 and a longest common subsequence of 4):
\* similarity = lcs, distance = max(m, n) - lcs, normalized similarity =
\* lcs / max(m, n)
lcs_seq_similarity(a, b) == LcsLen(a, b)

\* lcs_seq_distance by the Indel formula: m + n - 2 * lcs
lcs_seq_distanceAsIndel(a, b) == Len(a) + Len(b) - 2 * LcsLen(a, b)

lcs_seq_distance(a, b) == Max2(Len(a), Len(b)) - LcsLen(a, b)

\* lcs_seq_normalized_similarity by the Indel formula: 2 * lcs / (m + n)
lcs_seq_normalized_similarityAsIndel(a, b) ==
  IF Len(a) + Len(b) = 0 THEN RatInt(1)
  ELSE Rat(2 * LcsLen(a, b), Len(a) + Len(b))

lcs_seq_normalized_similarity(a, b) ==
  IF Len(a) = 0 /\ Len(b) = 0 THEN RatInt(1)
  ELSE Rat(LcsLen(a, b), Max2(Len(a), Len(b)))

\* Jaro search window: max(m, n) / 2 - 1, never negative
JaroWindow(a, b) == Max2(0, (Max2(Len(a), Len(b)) \div 2) - 1)

RECURSIVE JaroMatch(_, _, _, _, _)
\* greedy matching: each character of a, in order, takes the first unmatched
\* equal character of b inside the window; the result maps the matched
\* positions of a to their positions in b
JaroMatch(a, b, i, usedB, pairs) ==
  IF i > Len(a) THEN pairs
  ELSE LET w == JaroWindow(a, b)
           cand == {j \in 1..Len(b) :
                      /\ j >= i - w /\ j <= i + w
                      /\ j \notin usedB /\ b[j] = a[i]}
       IN  IF cand = {} THEN JaroMatch(a, b, i + 1, usedB, pairs)
           ELSE LET j == CHOOSE x \in cand : \A y \in cand : x <= y
                IN  JaroMatch(a, b, i + 1, usedB \cup {j}, Append(pairs, <<i, j>>))

\* the k-th smallest element of a set of integers
RECURSIVE KthSmallest(_, _)
KthSmallest(S, k) ==
  LET lo == CHOOSE x \in S : \A y \in S : x <= y
  IN  IF k = 1 THEN lo ELSE KthSmallest(S \ {lo}, k - 1)

\* (1/3) (m'/m + m'/n + (m' - t)/m'), m' matches, t transpositions
jaro(a, b) ==
  IF Len(a) = 0 /\ Len(b) = 0 THEN RatInt(1)
  ELSE IF Len(a) = 0 \/ Len(b) = 0 THEN RatInt(0)
  ELSE LET pairs == JaroMatch(a, b, 1, {}, <<>>)
           mm == Len(pairs)
           matchedB == {pairs[k][2] : k \in 1..mm}
           \* matched characters out of order, counted in pairs
           outOfOrder == Cardinality({k \in 1..mm :
                            a[pairs[k][1]] # b[KthSmallest(matchedB, k)]})
           t == outOfOrder \div 2
       IN  IF mm = 0 THEN RatInt(0)
           ELSE RatDivInt(RatAdd(RatAdd(Rat(mm, Len(a)), Rat(mm, Len(b))),
                                 Rat(mm - t, mm)), 3)

RECURSIVE CommonPrefixLen(_, _)
CommonPrefixLen(a, b) ==
  IF a = <<>> \/ b = <<>> \/ a[1] # b[1] THEN 0
  ELSE 1 + CommonPrefixLen(Tail(a), Tail(b))

\* jaro + L * p * (1 - jaro), L the common prefix length capped at max_prefix;
\* the result is not clamped
jaro_winkler_with_params(a, b, prefix_scale, max_prefix) ==
  LET j == jaro(a, b)
      L == Min2(CommonPrefixLen(a, b), max_prefix)
  IN  RatAdd(j, RatMul(RatMul(RatInt(L), prefix_scale), RatSub(RatInt(1), j)))

\* the engine's defaults: prefix scale 0.1, prefix length at most 4
jaro_winkler(a, b) == jaro_winkler_with_params(a, b, Rat(1, 10), 4)

-----------------------------------------------------------------------------
(* Token-based fuzzy matching.                                             *)

tokenize(str) ==
  SelectSeq(SplitWhitespace(Trim(str)), LAMBDA token : Len(token) > 0)

RECURSIVE WindowMaxSkipLast(_, _, _, _)
\* WindowMax with the loop bound i < longer.length - shorterLen: the last
\* window is never compared
WindowMaxSkipLast(shorter, longer, i, maxRatio) ==
  IF i >= Len(longer) - Len(shorter) THEN maxRatio
  ELSE WindowMaxSkipLast(shorter, longer, i + 1,
                 RatMax(maxRatio,
                        ratio(shorter, Substring(longer, i, i + Len(shorter)))))

RECURSIVE WindowMax(_, _, _, _)
\* the sliding-window loop of partialRatio, from offset i with running maximum
WindowMax(shorter, longer, i, maxRatio) ==
  IF i > Len(longer) - Len(shorter) THEN maxRatio
  ELSE WindowMax(shorter, longer, i + 1,
                 RatMax(maxRatio,
                        ratio(shorter, Substring(longer, i, i + Len(shorter)))))

\* the windows [from, to) of `longer` that the loop of partialRatio compares,
\* none when it returns before the loop
partialRatioWindows(a, b) ==
  LET shorter == IF Len(a) <= Len(b) THEN a ELSE b
      longer  == IF Len(a) <= Len(b) THEN b ELSE a
  IN  IF Len(a) = 0 \/ Len(b) = 0 \/ Includes(longer, shorter) THEN {}
      ELSE {[from |-> i, to |-> i + Len(shorter)] :
              i \in 0..(Len(longer) - Len(shorter))}

\* partialRatio whose empty-input guard returns 0 without comparing a and b
partialRatioEmptyIsZero(a, b) ==
  IF Len(a) = 0 \/ Len(b) = 0
  THEN RatInt(0)
  ELSE LET shorter == IF Len(a) <= Len(b) THEN a ELSE b
           longer  == IF Len(a) <= Len(b) THEN b ELSE a
       IN  IF Includes(longer, shorter) THEN ratio(shorter, shorter)
           ELSE WindowMax(shorter, longer, 0, RatInt(0))

\* partialRatio that always slides its first argument over the second
partialRatioSlidesFirst(a, b) ==
  IF Len(a) = 0 \/ Len(b) = 0
  THEN (IF a = b THEN RatInt(100) ELSE RatInt(0))
  ELSE IF Includes(b, a) THEN ratio(a, a)
  ELSE WindowMax(a, b, 0, RatInt(0))

partialRatio(a, b) ==
  IF Len(a) = 0 \/ Len(b) = 0
  THEN (IF a = b THEN RatInt(100) ELSE RatInt(0))
  ELSE LET shorter == IF Len(a) <= Len(b) THEN a ELSE b
           longer  == IF Len(a) <= Len(b) THEN b ELSE a
       IN  IF Len(shorter) = 0 THEN RatInt(0)
           ELSE IF Includes(longer, shorter) THEN ratio(shorter, shorter)
           ELSE WindowMax(shorter, longer, 0, RatInt(0))

\* tokenSortRatio with the second argument's tokens left unsorted
tokenSortRatioSecondUnsorted(a, b) ==
  ratio(JoinWith(SortStrings(tokenize(a)), <<" ">>), JoinWith(tokenize(b), <<" ">>))

tokenSortRatio(a, b) ==
  LET tokensA == tokenize(a)
      tokensB == tokenize(b)
      sortedA == JoinWith(SortStrings(tokensA), <<" ">>)
      sortedB == JoinWith(SortStrings(tokensB), <<" ">>)
  IN  ratio(sortedA, sortedB)

\* tokenSetScores as it was before the empty-intersection fix: the three
\* intersection comparisons are always made
tokenSetScoresUnguarded(strA, strB, sortedIntersection) ==
  << ratio(sortedIntersection, sortedIntersection),
     ratio(strA, strB),
     ratio(sortedIntersection, strA),
     ratio(sortedIntersection, strB) >>

\* tokenSetScores without the comparison of the intersection with itself
tokenSetScoresWithoutSelf(strA, strB, sortedIntersection) ==
  IF Len(sortedIntersection) > 0
  THEN << ratio(strA, strB),
          ratio(sortedIntersection, strA),
          ratio(sortedIntersection, strB) >>
  ELSE << ratio(strA, strB) >>

\* the list of scores tokenSetRatio takes the maximum of
tokenSetScores(strA, strB, sortedIntersection) ==
  IF Len(sortedIntersection) > 0
  THEN << ratio(strA, strB),
          ratio(sortedIntersection, sortedIntersection),
          ratio(sortedIntersection, strA),
          ratio(sortedIntersection, strB) >>
  ELSE << ratio(strA, strB) >>

tokenSetRatio(a, b) ==
  LET tokensA == tokenize(a)
      tokensB == tokenize(b)
  IN  IF Len(tokensA) = 0 /\ Len(tokensB) = 0 THEN RatInt(100)
      ELSE IF Len(tokensA) = 0 \/ Len(tokensB) = 0 THEN RatInt(0)
      ELSE
        LET setA == Values(SetOf(tokensA))
            setB == Values(SetOf(tokensB))
            intersection == SelectSeq(setA, LAMBDA token : token \in Range(setB))
            diffA == SelectSeq(setA, LAMBDA token : token \notin Range(intersection))
            diffB == SelectSeq(setB, LAMBDA token : token \notin Range(intersection))
            intersectionStr == JoinWith(SortStrings(intersection), <<" ">>)
            diffAStr == JoinWith(SortStrings(diffA), <<" ">>)
            diffBStr == JoinWith(SortStrings(diffB), <<" ">>)
            sortedIntersection == intersectionStr
            strA == sortedIntersection
                      \o (IF diffAStr # <<>> THEN <<" ">> \o diffAStr ELSE <<>>)
            strB == sortedIntersection
                      \o (IF diffBStr # <<>> THEN <<" ">> \o diffBStr ELSE <<>>)
        IN  RatMaxOf(tokenSetScores(strA, strB, sortedIntersection))

-----------------------------------------------------------------------------
(* Process module: best matches from a list of choices.                    *)

\* a scorer is a library function, named, or a caller's own function, given
\* by the score it returns for each processed choice
ApplyScorer(scorer, q, c) ==
  CASE scorer.name = "ratio" -> ratio(q, c)
    [] scorer.name = "partialRatio" -> partialRatio(q, c)
    [] scorer.name = "tokenSortRatio" -> tokenSortRatio(q, c)
    [] scorer.name = "tokenSetRatio" -> tokenSetRatio(q, c)
    [] scorer.name = "custom" -> scorer.table[c]

ToLowerCase(s) == [i \in 1..Len(s) |-> IF s[i] = "A" THEN "a" ELSE s[i]]

\* a processor is the identity or a caller's function; (s) => s.toLowerCase()
\* stands for the latter
ApplyProcessor(processor, s) ==
  CASE processor.name = "identity" -> s
    [] processor.name = "toLowerCase" -> ToLowerCase(s)

defaultProcessor == [name |-> "identity"]

\* normalizeExtractOptions with a default cutoff of 60 in place of 0
normalizeExtractOptionsCutoffSixty(options) ==
  LET named == [scorer |-> Nullish(options, "scorer", [name |-> "ratio"]),
                processor |-> Nullish(options, "processor", defaultProcessor),
                scoreCutoff |-> Nullish(options, "scoreCutoff",
                                  Nullish(options, "score_cutoff", RatInt(60)))]
  IN  IF "limit" \in DOMAIN options
      THEN named @@ [limit |-> options.limit]
      ELSE named

\* the normalized options; `limit` stays absent when the caller gave none
normalizeExtractOptions(options) ==
  LET named == [scorer |-> Nullish(options, "scorer", [name |-> "ratio"]),
                processor |-> Nullish(options, "processor", defaultProcessor),
                scoreCutoff |-> Nullish(options, "scoreCutoff",
                                  Nullish(options, "score_cutoff", RatInt(0)))]
  IN  IF "limit" \in DOMAIN options
      THEN named @@ [limit |-> options.limit]
      ELSE named

Null == [null |-> TRUE]
NegInfinity == [negInfinity |-> TRUE]

\* ExceedsBest with score >= bestScore: a later choice of equal score wins
ExceedsBestOrEquals(s, bestScore) ==
  IF bestScore = NegInfinity THEN TRUE ELSE RatGE(s, bestScore)

\* score > bestScore, where bestScore starts at -Infinity
ExceedsBest(s, bestScore) ==
  IF bestScore = NegInfinity THEN TRUE ELSE RatGT(s, bestScore)

\* ScoredChoice that stores the processed choice in the match
ScoredChoiceProcessed(query, choices, opts, i) ==
  LET choice == choices[i + 1]
      processedChoice == ApplyProcessor(opts.processor, choice)
      processedQuery == ApplyProcessor(opts.processor, query)
  IN  [choice |-> processedChoice,
       score |-> ApplyScorer(opts.scorer, processedQuery, processedChoice),
       index |-> i]

\* the loop body's match for the choice at 0-based index i
ScoredChoice(query, choices, opts, i) ==
  LET choice == choices[i + 1]
      processedChoice == ApplyProcessor(opts.processor, choice)
      processedQuery == ApplyProcessor(opts.processor, query)
  IN  [choice |-> choice,
       score |-> ApplyScorer(opts.scorer, processedQuery, processedChoice),
       index |-> i]

\* PassesCutoff as it was before the cutoff fix: score > scoreCutoff
PassesCutoffStrict(s, scoreCutoff) == RatGT(s, scoreCutoff)

\* a choice is kept when score >= scoreCutoff
PassesCutoff(s, scoreCutoff) == RatGE(s, scoreCutoff)

RECURSIVE ExtractOneLoop(_, _, _, _, _, _)
\* the loop of extractOne from index i on
ExtractOneLoop(query, choices, opts, i, bestMatch, bestScore) ==
  IF i >= Len(choices) THEN bestMatch
  ELSE LET m == ScoredChoice(query, choices, opts, i)
       IN  IF PassesCutoff(m.score, opts.scoreCutoff) /\ ExceedsBest(m.score, bestScore)
           THEN ExtractOneLoop(query, choices, opts, i + 1, m, m.score)
           ELSE ExtractOneLoop(query, choices, opts, i + 1, bestMatch, bestScore)

extractOne(query, choices, options) ==
  LET opts == normalizeExtractOptions(options)
  IN  IF Len(choices) = 0 THEN Null
      ELSE ExtractOneLoop(query, choices, opts, 0, Null, NegInfinity)

RECURSIVE InsertByScoreBeforeTies(_, _)
\* InsertByScore of a sort that is not stable: x goes in front of the
\* entries of equal score
InsertByScoreBeforeTies(sorted, x) ==
  IF sorted = <<>> THEN <<x>>
  ELSE IF RatLE(sorted[1].score, x.score) THEN <<x>> \o sorted
  ELSE <<sorted[1]>> \o InsertByScoreBeforeTies(Tail(sorted), x)

RECURSIVE InsertByScore(_, _)
\* x placed behind every entry the comparator (a, b) => b.score - a.score
\* does not order after it: behind every entry of greater or equal score
InsertByScore(sorted, x) ==
  IF sorted = <<>> THEN <<x>>
  ELSE IF RatLT(sorted[1].score, x.score) THEN <<x>> \o sorted
  ELSE <<sorted[1]>> \o InsertByScore(Tail(sorted), x)

RECURSIVE InsertByScoreThenValue(_, _)
InsertByScoreThenValue(sorted, x) ==
  IF sorted = <<>> THEN <<x>>
  ELSE IF \/ RatLT(sorted[1].score, x.score)
          \/ sorted[1].score = x.score /\ StrLess(x.value, sorted[1].value)
       THEN <<x>> \o sorted
       ELSE <<sorted[1]>> \o InsertByScoreThenValue(Tail(sorted), x)

RECURSIVE SortByScoreThenValue(_)
\* a sort by score descending and then by value ascending
SortByScoreThenValue(seq) ==
  IF seq = <<>> THEN <<>>
  ELSE InsertByScoreThenValue(SortByScoreThenValue(SubSeq(seq, 1, Len(seq) - 1)),
                              seq[Len(seq)])

RECURSIVE SortByScoreDesc(_)
\* Array.prototype.sort((a, b) => b.score - a.score), a stable sort
SortByScoreDesc(seq) ==
  IF seq = <<>> THEN <<>>
  ELSE InsertByScore(SortByScoreDesc(SubSeq(seq, 1, Len(seq) - 1)), seq[Len(seq)])

\* Array.prototype.slice(0, k) for an integer k >= 0
SliceTo(seq, k) == SubSeq(seq, 1, Min2(k, Len(seq)))

\* extract that leaves the qualifying choices in list order
extractUnsorted(query, choices, options) ==
  LET opts == normalizeExtractOptions(options)
  IN  IF Len(choices) = 0 THEN <<>>
      ELSE LET all == [k \in 1..Len(choices) |->
                         ScoredChoice(query, choices, opts, k - 1)]
               results == SelectSeq(all,
                            LAMBDA m : PassesCutoff(m.score, opts.scoreCutoff))
           IN  IF "limit" \in DOMAIN opts THEN SliceTo(results, opts.limit)
               ELSE results

extract(query, choices, options) ==
  LET opts == normalizeExtractOptions(options)
  IN  IF Len(choices) = 0 THEN <<>>
      ELSE LET all == [k \in 1..Len(choices) |->
                         ScoredChoice(query, choices, opts, k - 1)]
               results == SelectSeq(all,
                            LAMBDA m : PassesCutoff(m.score, opts.scoreCutoff))
               sorted == SortByScoreDesc(results)
           IN  IF "limit" \in DOMAIN opts THEN SliceTo(sorted, opts.limit)
               ELSE sorted

-----------------------------------------------------------------------------
(* Unified API: metric-selectable distance and score.                      *)

normalizeDistanceMetric(metric) ==
  CASE metric \in {"damerauLevenshtein", "damerau_levenshtein", "damerau_unrestricted"}
         -> Ok("damerauLevenshtein")
    [] metric = "damerau_osa" -> Ok("osa")
    [] metric \in {"lcsSeq", "lcs_seq"} -> Ok("lcsSeq")
    [] metric \in {"levenshtein", "osa", "indel"} -> Ok(metric)
    [] OTHER -> Throw("Unknown distance metric")

normalizeSimilarityMetric(metric) ==
  CASE metric \in {"damerauLevenshtein", "damerau_levenshtein", "damerau_unrestricted"}
         -> Ok("damerauLevenshtein")
    [] metric \in {"jaroWinkler", "jaro_winkler"} -> Ok("jaroWinkler")
    [] metric \in {"lcsSeq", "lcs_seq"} -> Ok("lcsSeq")
    [] metric = "damerau_osa" -> Ok("osa")
    [] metric \in {"partialRatio", "partial_ratio"} -> Ok("partialRatio")
    [] metric \in {"tokenSortRatio", "token_sort_ratio"} -> Ok("tokenSortRatio")
    [] metric \in {"tokenSetRatio", "token_set_ratio"} -> Ok("tokenSetRatio")
    [] metric \in {"levenshtein", "osa", "jaro", "indel", "ratio"} -> Ok(metric)
    [] OTHER -> Throw("Unknown similarity metric")

\* distance(a, b, metric = 'levenshtein'): what the call returns or throws
distance(a, b, metric) ==
  LET normalizedMetric == normalizeDistanceMetric(metric)
  IN  IF ~normalizedMetric.ok THEN normalizedMetric
      ELSE CASE normalizedMetric.value = "levenshtein" -> Ok(levenshtein(a, b))
             [] normalizedMetric.value = "damerauLevenshtein"
                  -> Ok(damerau_levenshtein(a, b))
             [] normalizedMetric.value = "osa" -> Ok(osa_distance(a, b))
             [] normalizedMetric.value = "indel" -> Ok(indel_distance(a, b))
             [] normalizedMetric.value = "lcsSeq" -> Ok(lcs_seq_distance(a, b))
             [] OTHER -> Throw("Unknown distance metric")

\* score without the conversion of the 0-100 token ratios to 0-1
scoreUnscaled(a, b, metric) ==
  LET normalizedMetric == normalizeSimilarityMetric(metric)
  IN  IF ~normalizedMetric.ok THEN normalizedMetric
      ELSE CASE normalizedMetric.value = "levenshtein"
                  -> Ok(normalized_levenshtein(a, b))
             [] normalizedMetric.value = "damerauLevenshtein"
                  -> Ok(normalized_damerau_levenshtein(a, b))
             [] normalizedMetric.value = "osa" -> Ok(normalized_osa_similarity(a, b))
             [] normalizedMetric.value = "jaro" -> Ok(jaro(a, b))
             [] normalizedMetric.value = "jaroWinkler" -> Ok(jaro_winkler(a, b))
             [] normalizedMetric.value = "indel"
                  -> Ok(indel_normalized_similarity(a, b))
             [] normalizedMetric.value = "lcsSeq"
                  -> Ok(lcs_seq_normalized_similarity(a, b))
             [] normalizedMetric.value = "ratio" -> Ok(RatDivInt(ratio(a, b), 100))
             [] normalizedMetric.value = "partialRatio" -> Ok(partialRatio(a, b))
             [] normalizedMetric.value = "tokenSortRatio" -> Ok(tokenSortRatio(a, b))
             [] normalizedMetric.value = "tokenSetRatio" -> Ok(tokenSetRatio(a, b))
             [] OTHER -> Throw("Unknown similarity metric")

\* score(a, b, metric = 'jaroWinkler'): what the call returns or throws
score(a, b, metric) ==
  LET normalizedMetric == normalizeSimilarityMetric(metric)
  IN  IF ~normalizedMetric.ok THEN normalizedMetric
      ELSE CASE normalizedMetric.value = "levenshtein"
                  -> Ok(normalized_levenshtein(a, b))
             [] normalizedMetric.value = "damerauLevenshtein"
                  -> Ok(normalized_damerau_levenshtein(a, b))
             [] normalizedMetric.value = "osa" -> Ok(normalized_osa_similarity(a, b))
             [] normalizedMetric.value = "jaro" -> Ok(jaro(a, b))
             [] normalizedMetric.value = "jaroWinkler" -> Ok(jaro_winkler(a, b))
             [] normalizedMetric.value = "indel"
                  -> Ok(indel_normalized_similarity(a, b))
             [] normalizedMetric.value = "lcsSeq"
                  -> Ok(lcs_seq_normalized_similarity(a, b))
             [] normalizedMetric.value = "ratio" -> Ok(RatDivInt(ratio(a, b), 100))
             [] normalizedMetric.value = "partialRatio"
                  -> Ok(RatDivInt(partialRatio(a, b), 100))
             [] normalizedMetric.value = "tokenSortRatio"
                  -> Ok(RatDivInt(tokenSortRatio(a, b), 100))
             [] normalizedMetric.value = "tokenSetRatio"
                  -> Ok(RatDivInt(tokenSetRatio(a, b), 100))
             [] OTHER -> Throw("Unknown similarity metric")

-----------------------------------------------------------------------------
(* Suggestions.                                                            *)

\* The normalizer of the engine.  Characters beyond the letters of the other
\* models, each one code point:
\*   "."          a punctuation mark
\*   "E", "e", "I", "i"       letters
\*   "acute"      U+0301 combining acute accent
\*   "dot"        U+0307 combining dot above
\*   "E_acute", "e_acute"     U+00C9, U+00E9 (precomposed)
\*   "I_dot"      U+0130 capital I with dot above (precomposed)
\*   "i_dotless"  U+0131 small dotless i
\* an argument that was not passed
Undefined == "undefined"

\* base, combining mark, precomposed character
Compositions ==
  {<<"E", "acute", "E_acute">>, <<"e", "acute", "e_acute">>,
   <<"I", "dot", "I_dot">>}

IsCombiningMark(c) == c \in {"acute", "dot"}

IsPunctuation(c) == c = "."

RECURSIVE Nfc(_)
\* canonical composition: a base followed by its mark becomes the precomposed
\* character
Nfc(s) ==
  IF Len(s) < 2 THEN s
  ELSE IF \E t \in Compositions : t[1] = s[1] /\ t[2] = s[2]
       THEN LET t == CHOOSE u \in Compositions : u[1] = s[1] /\ u[2] = s[2]
            IN  Nfc(<<t[3]>> \o SubSeq(s, 3, Len(s)))
       ELSE <<s[1]>> \o Nfc(Tail(s))

Decompose(c) ==
  IF \E t \in Compositions : t[3] = c
  THEN LET t == CHOOSE u \in Compositions : u[3] = c IN <<t[1], t[2]>>
  ELSE <<c>>

RECURSIVE Nfkd(_)
\* compatibility decomposition: a precomposed character becomes base and mark
Nfkd(s) == IF s = <<>> THEN <<>> ELSE Decompose(s[1]) \o Nfkd(Tail(s))

\* the lowercase of one character: standard Unicode folding, or the Turkish /
\* Azerbaijani rules (dotted I -> i, dotless I -> dotless i)
LowerOf(c, locale) ==
  CASE c = "A" -> <<"a">>
    [] c = "E" -> <<"e">>
    [] c = "E_acute" -> <<"e_acute">>
    [] c = "I" -> IF locale \in {"tr", "az"} THEN <<"i_dotless">> ELSE <<"i">>
    [] c = "I_dot" -> IF locale \in {"tr", "az"} THEN <<"i">> ELSE <<"i", "dot">>
    [] OTHER -> <<c>>

RECURSIVE CaseFold(_, _)
CaseFold(s, locale) ==
  IF s = <<>> THEN <<>> ELSE LowerOf(s[1], locale) \o CaseFold(Tail(s), locale)

RECURSIVE StripMarks(_, _, _)
\* the combining marks removed; under the Lithuanian locale the combining dot
\* above that follows a small i is preserved
StripMarks(s, locale, prev) ==
  IF s = <<>> THEN <<>>
  ELSE IF /\ IsCombiningMark(s[1])
          /\ ~(locale = "lt" /\ s[1] = "dot" /\ prev = "i")
       THEN StripMarks(Tail(s), locale, prev)
       ELSE <<s[1]>> \o StripMarks(Tail(s), locale, s[1])

RemovePunctuation(s) == SelectSeq(s, LAMBDA c : ~IsPunctuation(c))

\* aggressive that trims before it removes punctuation
NormalizePipelineTrimFirst(input, preset, locale) ==
  CASE preset = "none" -> input
    [] preset = "minimal" -> Trim(Nfc(input))
    [] preset = "default" -> Trim(CaseFold(Nfc(input), locale))
    [] preset = "aggressive" ->
         RemovePunctuation(
           Trim(StripMarks(CaseFold(Nfkd(input), locale), locale, "")))

\* the four presets:
\*   none: identity;  minimal: NFC, trim;  default: NFC, lowercase, trim;
\*   aggressive: NFKD, lowercase, strip combining marks, remove punctuation,
\*   trim
NormalizePipeline(input, preset, locale) ==
  CASE preset = "none" -> input
    [] preset = "minimal" -> Trim(Nfc(input))
    [] preset = "default" -> Trim(CaseFold(Nfc(input), locale))
    [] preset = "aggressive" ->
         Trim(RemovePunctuation(
           StripMarks(CaseFold(Nfkd(input), locale), locale, "")))

\* the engine's two exports
wasm_normalize(input, preset) == NormalizePipeline(input, preset, Undefined)

normalize_with_locale(input, preset, locale) ==
  NormalizePipeline(input, preset, locale)

\* normalize(input, preset = 'none', locale?)
normalize(input, presetArg, locale) ==
  LET preset == IF presetArg = Undefined THEN "none" ELSE presetArg
  IN  IF locale # Undefined
      THEN normalize_with_locale(input, preset, locale)
      ELSE wasm_normalize(input, preset)

RECURSIVE CodePointsFrom(_, _)
\* the string iterator from code unit i on: a high surrogate followed by a
\* low surrogate is one code point, every other code unit is one by itself
CodePointsFrom(value, i) ==
  IF i > Len(value) THEN <<>>
  ELSE IF /\ value[i] = HighSurrogate
          /\ i < Len(value)
          /\ value[i + 1] = LowSurrogate
       THEN <<"HL">> \o CodePointsFrom(value, i + 2)
       ELSE <<value[i]>> \o CodePointsFrom(value, i + 1)

\* Array.from(value)
toCodePoints(value) == CodePointsFrom(value, 1)

RECURSIVE DpNoReset(_, _, _, _)
\* Dp that carries the run over a mismatch instead of setting the cell to 0
DpNoReset(a, b, i, j) ==
  IF i = 0 \/ j = 0 THEN 0
  ELSE IF a[i] = b[j] THEN DpNoReset(a, b, i - 1, j - 1) + 1
  ELSE DpNoReset(a, b, i - 1, j - 1)

\* common suffix length of a[1..i] and b[1..j]: the value of dp[i][j]
RECURSIVE Dp(_, _, _, _)
Dp(a, b, i, j) ==
  IF i = 0 \/ j = 0 THEN 0
  ELSE IF a[i] = b[j] THEN Dp(a, b, i - 1, j - 1) + 1
  ELSE 0

RECURSIVE SubstringScanKeepsLast(_, _, _, _)
\* SubstringScan with dp[i][j] >= maxLen: a later run of equal length replaces
\* the one kept
SubstringScanKeepsLast(a, b, c, best) ==
  IF c = Len(a) * Len(b) THEN best
  ELSE LET i == (c \div Len(b)) + 1
           j == (c % Len(b)) + 1
           d == Dp(a, b, i, j)
       IN  IF a[i] = b[j] /\ d >= best.maxLen
           THEN SubstringScanKeepsLast(a, b, c + 1,
                                       [maxLen |-> d, endA |-> i, endB |-> j])
           ELSE SubstringScanKeepsLast(a, b, c + 1, best)

RECURSIVE SubstringScan(_, _, _, _)
\* the two nested loops from cell number c on (row i = 1..m, column j = 1..n),
\* best = the running maxLen, endA, endB
SubstringScan(a, b, c, best) ==
  IF c = Len(a) * Len(b) THEN best
  ELSE LET i == (c \div Len(b)) + 1
           j == (c % Len(b)) + 1
           d == Dp(a, b, i, j)
       IN  IF a[i] = b[j] /\ d > best.maxLen
           THEN SubstringScan(a, b, c + 1, [maxLen |-> d, endA |-> i, endB |-> j])
           ELSE SubstringScan(a, b, c + 1, best)

substringSimilarity(query, candidate) ==
  LET aChars == toCodePoints(query)
      bChars == toCodePoints(candidate)
      m == Len(aChars)
      n == Len(bChars)
      best == SubstringScan(aChars, bChars, 0, [maxLen |-> 0, endA |-> 0, endB |-> 0])
  IN  [score |-> IF best.maxLen = 0 THEN RatInt(0) ELSE Rat(2 * best.maxLen, m + n),
       queryRange |-> <<best.endA - best.maxLen, best.endA>>,
       candidateRange |-> <<best.endB - best.maxLen, best.endB>>]

\* normalizeSuggestMetric that falls back to the default metric instead of
\* throwing
normalizeSuggestMetricLenient(metric) ==
  CASE metric \in {"damerauOsa", "damerau_osa"} -> Ok("damerauOsa")
    [] metric \in {"damerauUnrestricted", "damerau_unrestricted"}
         -> Ok("damerauUnrestricted")
    [] metric \in {"partialRatio", "partial_ratio"} -> Ok("partialRatio")
    [] metric \in {"tokenSortRatio", "token_sort_ratio"} -> Ok("tokenSortRatio")
    [] metric \in {"tokenSetRatio", "token_set_ratio"} -> Ok("tokenSetRatio")
    [] metric \in {"lcsSeq", "lcs_seq"} -> Ok("lcsSeq")
    [] metric \in {"levenshtein", "jaro", "substring", "ratio", "indel"} -> Ok(metric)
    [] OTHER -> Ok("jaroWinkler")

normalizeSuggestMetric(metric) ==
  CASE metric \in {"damerauOsa", "damerau_osa"} -> Ok("damerauOsa")
    [] metric \in {"damerauUnrestricted", "damerau_unrestricted"}
         -> Ok("damerauUnrestricted")
    [] metric \in {"jaroWinkler", "jaro_winkler"} -> Ok("jaroWinkler")
    [] metric \in {"partialRatio", "partial_ratio"} -> Ok("partialRatio")
    [] metric \in {"tokenSortRatio", "token_sort_ratio"} -> Ok("tokenSortRatio")
    [] metric \in {"tokenSetRatio", "token_set_ratio"} -> Ok("tokenSetRatio")
    [] metric \in {"lcsSeq", "lcs_seq"} -> Ok("lcsSeq")
    [] metric \in {"levenshtein", "jaro", "substring", "ratio", "indel"} -> Ok(metric)
    [] OTHER -> Throw("Unknown suggestion metric")

\* normalizeSuggestionOptions that reads min_score before minScore
normalizeSuggestionOptionsSnakeFirst(options) ==
  LET metric == normalizeSuggestMetric(Nullish(options, "metric", "jaroWinkler"))
      named ==
        [metric |-> metric.value,
         minScore |-> Nullish(options, "min_score",
                        Nullish(options, "minScore", Rat(6, 10))),
         maxSuggestions |-> Nullish(options, "maxSuggestions",
                              Nullish(options, "max_suggestions", 5)),
         preferPrefix |-> Nullish(options, "preferPrefix",
                            Nullish(options, "prefer_prefix", FALSE)),
         jaroPrefixScale |-> Nullish(options, "jaroPrefixScale",
                               Nullish(options, "jaro_prefix_scale", Rat(1, 10))),
         jaroMaxPrefix |-> Nullish(options, "jaroMaxPrefix",
                             Nullish(options, "jaro_max_prefix", 4))]
      withPreset ==
        IF "preset" \in DOMAIN options
        THEN named @@ [preset |-> options.preset] ELSE named
      withNormalizePreset ==
        IF "normalizePreset" \in DOMAIN options
        THEN withPreset @@ [normalizePreset |-> options.normalizePreset]
        ELSE IF "normalize_preset" \in DOMAIN options
             THEN withPreset @@ [normalizePreset |-> options.normalize_preset]
             ELSE withPreset
  IN  IF ~metric.ok THEN metric ELSE Ok(withNormalizePreset)

\* the normalized options, or the error normalizeSuggestMetric throws;
\* preset and normalizePreset stay absent when the caller gave none
normalizeSuggestionOptions(options) ==
  LET metric == normalizeSuggestMetric(Nullish(options, "metric", "jaroWinkler"))
      named ==
        [metric |-> metric.value,
         minScore |-> Nullish(options, "minScore",
                        Nullish(options, "min_score", Rat(6, 10))),
         maxSuggestions |-> Nullish(options, "maxSuggestions",
                              Nullish(options, "max_suggestions", 5)),
         preferPrefix |-> Nullish(options, "preferPrefix",
                            Nullish(options, "prefer_prefix", FALSE)),
         jaroPrefixScale |-> Nullish(options, "jaroPrefixScale",
                               Nullish(options, "jaro_prefix_scale", Rat(1, 10))),
         jaroMaxPrefix |-> Nullish(options, "jaroMaxPrefix",
                             Nullish(options, "jaro_max_prefix", 4))]
      withPreset ==
        IF "preset" \in DOMAIN options
        THEN named @@ [preset |-> options.preset] ELSE named
      withNormalizePreset ==
        IF "normalizePreset" \in DOMAIN options
        THEN withPreset @@ [normalizePreset |-> options.normalizePreset]
        ELSE IF "normalize_preset" \in DOMAIN options
             THEN withPreset @@ [normalizePreset |-> options.normalize_preset]
             ELSE withPreset
  IN  IF ~metric.ok THEN metric ELSE Ok(withNormalizePreset)

jaro_winkler_custom(a, b, options) ==
  LET prefixScale == Nullish(options, "prefix_scale", Rat(1, 10))
      maxPrefix == Nullish(options, "max_prefix", 4)
  IN  jaro_winkler_with_params(a, b, prefixScale, maxPrefix)

\* the score of one candidate and the label that opens its explanation (the
\* explanation's formatted number is left out); matchedRange for substring only
computeSimilarity(metric, query, candidate, jaroOptions) ==
  CASE metric = "levenshtein" ->
         [score |-> normalized_levenshtein(query, candidate),
          explanation |-> "normalized_levenshtein"]
    [] metric = "damerauOsa" ->
         [score |-> normalized_osa_similarity(query, candidate),
          explanation |-> "normalized_osa_similarity"]
    [] metric = "damerauUnrestricted" ->
         [score |-> normalized_damerau_levenshtein(query, candidate),
          explanation |-> "normalized_damerau_levenshtein"]
    [] metric = "jaro" ->
         [score |-> jaro(query, candidate), explanation |-> "jaro"]
    [] metric = "jaroWinkler" ->
         [score |-> jaro_winkler_custom(query, candidate,
                      [prefix_scale |-> jaroOptions.prefixScale,
                       max_prefix |-> jaroOptions.maxPrefix]),
          explanation |-> "jaro_winkler"]
    [] metric = "substring" ->
         LET r == substringSimilarity(query, candidate)
         IN  [score |-> r.score,
              matchedRange |-> [start |-> r.candidateRange[1],
                                end |-> r.candidateRange[2]],
              explanation |-> "substring score"]
    [] metric = "ratio" ->
         [score |-> RatDivInt(ratio(query, candidate), 100),
          explanation |-> "ratio"]
    [] metric = "partialRatio" ->
         [score |-> RatDivInt(partialRatio(query, candidate), 100),
          explanation |-> "partial_ratio"]
    [] metric = "tokenSortRatio" ->
         [score |-> RatDivInt(tokenSortRatio(query, candidate), 100),
          explanation |-> "token_sort_ratio"]
    [] metric = "tokenSetRatio" ->
         [score |-> RatDivInt(tokenSetRatio(query, candidate), 100),
          explanation |-> "token_set_ratio"]
    [] metric = "indel" ->
         [score |-> indel_normalized_similarity(query, candidate),
          explanation |-> "indel_normalized_similarity"]
    [] metric = "lcsSeq" ->
         [score |-> lcs_seq_normalized_similarity(query, candidate),
          explanation |-> "lcs_seq_normalized_similarity"]

bonusWeight == Rat(1, 10)

\* PrefixBonus as a flat bonus: Math.min(1, finalScore + bonusWeight)
PrefixBonusFlat(finalScore) == RatMin(RatInt(1), RatAdd(finalScore, bonusWeight))

\* Math.min(1, finalScore + (1 - finalScore) * bonusWeight)
PrefixBonus(finalScore) ==
  RatMin(RatInt(1),
         RatAdd(finalScore, RatMul(RatSub(RatInt(1), finalScore), bonusWeight)))

\* MeetsMinScore with entry.score > minScore
MeetsMinScoreStrict(entryScore, minScore) == RatGT(entryScore, minScore)

\* the filter of suggest: entry.score >= minScore
MeetsMinScore(entryScore, minScore) == RatGE(entryScore, minScore)

\* the object candidates.map(...) returns for one candidate: sim is what
\* computeSimilarity returned and prefixed the outcome of the prefix test; the
\* field `pos` is not part of a Suggestion: it records the candidate's place
\* in the input so that the order of the output can be spoken of
Suggestion(candidate, normCandidate, sim, prefixed, pos) ==
  LET entry == [value |-> candidate,
                score |-> IF prefixed THEN PrefixBonus(sim.score) ELSE sim.score,
                normalizedValue |-> normCandidate,
                reason |-> IF prefixed THEN <<sim.explanation, "prefix_bonus">>
                           ELSE <<sim.explanation>>,
                pos |-> pos]
  IN  IF "matchedRange" \in DOMAIN sim
      THEN entry @@ [matchedRange |-> sim.matchedRange]
      ELSE entry

\* the callback of candidates.map(...) applied to the candidate at position k
ScoredCandidate(candidates, k, normQuery, preset, opts) ==
  LET candidate == candidates[k]
      normCandidate == normalize(candidate, preset, Undefined)
  IN  Suggestion(candidate, normCandidate,
                 computeSimilarity(opts.metric, normQuery, normCandidate,
                   [prefixScale |-> opts.jaroPrefixScale,
                    maxPrefix |-> opts.jaroMaxPrefix]),
                 opts.preferPrefix /\ StartsWith(normCandidate, normQuery),
                 k)

suggest(rawQuery, candidates, options) ==
  LET normalized == normalizeSuggestionOptions(options)
  IN  IF ~normalized.ok THEN normalized
      ELSE
        LET opts == normalized.value
            preset == Nullish(opts, "preset",
                        Nullish(opts, "normalizePreset", "default"))
            normQuery == normalize(rawQuery, preset, Undefined)
            scored == [k \in 1..Len(candidates) |->
                         ScoredCandidate(candidates, k, normQuery, preset, opts)]
            kept == SelectSeq(scored,
                      LAMBDA entry : MeetsMinScore(entry.score, opts.minScore))
        IN  Ok(SliceTo(SortByScoreDesc(kept), opts.maxSuggestions))

-----------------------------------------------------------------------------
(* Calls and results.                                                      *)

Pending == [kind |-> "pending"]
Returned(v) == [kind |-> "returned", value |-> v]
Thrown(msg) == [kind |-> "thrown", message |-> msg]

\* the inputs of the token-ratio functions
FuzzAlphabet == {"a", "b", " "}
FuzzStrings == StringsOver(FuzzAlphabet, MaxLen)

FuzzCalls ==
  [fn : {"partialRatio", "tokenSortRatio", "tokenSetRatio"},
   a : FuzzStrings, b : FuzzStrings]

InitFuzz == call \in FuzzCalls /\ result = Pending

CallPartialRatio ==
  /\ call.fn = "partialRatio" /\ result = Pending
  /\ result' = Returned(partialRatio(call.a, call.b))
  /\ UNCHANGED call

CallTokenSortRatio ==
  /\ call.fn = "tokenSortRatio" /\ result = Pending
  /\ result' = Returned(tokenSortRatio(call.a, call.b))
  /\ UNCHANGED call

CallTokenSetRatio ==
  /\ call.fn = "tokenSetRatio" /\ result = Pending
  /\ result' = Returned(tokenSetRatio(call.a, call.b))
  /\ UNCHANGED call

\* what a call leaves in `result`: the returned value or the thrown error
Outcome(r) == IF r.ok THEN Returned(r.value) ELSE Thrown(r.message)

\* every metric identifier some entry point accepts, and some that none does
MetricIds ==
  {"levenshtein", "damerauLevenshtein", "damerau_levenshtein",
   "damerauUnrestricted", "damerau_unrestricted", "damerauOsa", "damerau_osa",
   "osa", "jaro", "jaroWinkler", "jaro_winkler", "indel", "lcsSeq", "lcs_seq",
   "ratio", "partialRatio", "partial_ratio", "tokenSortRatio",
   "token_sort_ratio", "tokenSetRatio", "token_set_ratio", "substring",
   "hamming", "Levenshtein", ""}

MetricStrings == StringsOver(FuzzAlphabet, MaxMetricLen)

\* distance / score calls, with and without the metric argument
DispatchCalls ==
  [fn : {"distance", "score"}, a : MetricStrings, b : MetricStrings,
   metric : MetricIds]
  \cup [fn : {"distance", "score"}, a : MetricStrings, b : MetricStrings]

InitDispatch == call \in DispatchCalls /\ result = Pending

\* distance(a, b, metric: DistanceMetric = 'levenshtein')
defaultDistanceMetric == "levenshtein"

\* a score whose default metric is plain Jaro
defaultSimilarityMetricJaro == "jaro"

\* score(a, b, metric: SimilarityMetric = 'jaroWinkler')
defaultSimilarityMetric == "jaroWinkler"

CallDistance ==
  /\ call.fn = "distance" /\ result = Pending
  /\ result' = Outcome(distance(call.a, call.b,
                                Nullish(call, "metric", defaultDistanceMetric)))
  /\ UNCHANGED call

CallScore ==
  /\ call.fn = "score" /\ result = Pending
  /\ result' = Outcome(score(call.a, call.b,
                             Nullish(call, "metric", defaultSimilarityMetric)))
  /\ UNCHANGED call

NextDispatch == CallDistance \/ CallScore

SpecDispatch == InitDispatch /\ [][NextDispatch]_vars

NextFuzz == CallPartialRatio \/ CallTokenSortRatio \/ CallTokenSetRatio

SpecFuzz == InitFuzz /\ [][NextFuzz]_vars

\* the token-ratio functions together with distance and score
InitPair == InitFuzz \/ InitDispatch

NextPair == NextFuzz \/ NextDispatch

SpecPair == InitPair /\ [][NextPair]_vars

-----------------------------------------------------------------------------
(* extractOne / extract calls.                                             *)

\* an options object with no field
NoOptions == [f \in {} |-> f]

ExtractPool == {<<"a", "b">>, <<"A", "b">>, <<"b", "a">>}
ExtractQueries == {<<"a", "b">>, <<"a">>}
ChoiceLists == UNION {[1..n -> ExtractPool] : n \in 0..MaxChoices}

LibraryScorers ==
  {[name |-> f] : f \in {"ratio", "partialRatio", "tokenSortRatio", "tokenSetRatio"}}

\* a caller's scorer may return any number, negative ones included
CustomScores == {RatInt(-10), RatInt(50), RatInt(100)}
CustomScorers ==
  {[name |-> "custom", table |-> t] : t \in [ExtractPool -> CustomScores]}

ScorerOptions ==
  {NoOptions} \cup {[scorer |-> f] : f \in LibraryScorers \cup CustomScorers}
ProcessorOptions == {NoOptions, [processor |-> [name |-> "toLowerCase"]]}
CutoffOptions ==
  {NoOptions, [scoreCutoff |-> RatInt(50)], [score_cutoff |-> RatInt(100)]}
LimitOptions == {NoOptions} \cup {[limit |-> k] : k \in 0..MaxLimit}

ExtractOneCalls ==
  {[fn |-> "extractOne", query |-> q, choices |-> cs, options |-> s @@ p @@ c] :
     q \in ExtractQueries, cs \in ChoiceLists,
     s \in ScorerOptions, p \in ProcessorOptions, c \in CutoffOptions}

ExtractCalls ==
  {[fn |-> "extract", query |-> x[1], choices |-> x[2],
    options |-> s @@ p @@ c @@ l] :
     x \in ExtractQueries \X ChoiceLists,
     s \in ScorerOptions, p \in ProcessorOptions, c \in CutoffOptions,
     l \in LimitOptions}

InitExtract == call \in ExtractOneCalls \cup ExtractCalls /\ result = Pending

CallExtractOne ==
  /\ call.fn = "extractOne" /\ result = Pending
  /\ result' = Returned(extractOne(call.query, call.choices, call.options))
  /\ UNCHANGED call

\* extract that sorts the caller's array instead of an array of its own
CallExtractSortsChoices ==
  /\ call.fn = "extract" /\ result = Pending
  /\ result' = Returned(extract(call.query, call.choices, call.options))
  /\ LET opts == normalizeExtractOptions(call.options)
         all == [k \in 1..Len(call.choices) |->
                   ScoredChoice(call.query, call.choices, opts, k - 1)]
         sorted == SortByScoreDesc(all)
     IN  call' = [call EXCEPT
                    !.choices = [k \in 1..Len(sorted) |-> sorted[k].choice]]

CallExtract ==
  /\ call.fn = "extract" /\ result = Pending
  /\ result' = Returned(extract(call.query, call.choices, call.options))
  /\ UNCHANGED call

NextExtract == CallExtractOne \/ CallExtract

SpecExtract == InitExtract /\ [][NextExtract]_vars

-----------------------------------------------------------------------------
(* suggest calls.                                                          *)

SuggestPool == {<<"a", "b">>, <<"A", "b">>, <<"b", "a">>}
SuggestQueries == {<<"a">>, <<"A", "b">>}
CandidateLists == UNION {[1..n -> SuggestPool] : n \in 0..MaxCandidates}

MetricOptions == {NoOptions} \cup {[metric |-> m] : m \in MetricIds}
PresetOptions == {NoOptions, [preset |-> "none"]}
MinScoreOptions == {NoOptions, [minScore |-> RatInt(0)], [minScore |-> RatInt(1)]}
MaxSuggestionsOptions ==
  {NoOptions} \cup {[maxSuggestions |-> k] : k \in 0..MaxLimit}
PreferPrefixOptions == {NoOptions, [preferPrefix |-> TRUE]}
\* a prefix scale above 0.25 is accepted as it is
JaroOptions == {NoOptions, [jaroPrefixScale |-> RatInt(2)]}

\* the prefix scale is given only where Jaro-Winkler is the metric
SuggestOptionTuples ==
  {o \in MetricOptions \X PresetOptions \X MinScoreOptions
          \X MaxSuggestionsOptions \X PreferPrefixOptions \X JaroOptions :
     \/ o[6] = NoOptions
     \/ o[1] = NoOptions
     \/ o[1] \in {[metric |-> "jaroWinkler"], [metric |-> "jaro_winkler"]}}

SuggestCalls ==
  {[fn |-> "suggest", query |-> x[1], candidates |-> x[2],
    options |-> o[1] @@ o[2] @@ o[3] @@ o[4] @@ o[5] @@ o[6]] :
     x \in SuggestQueries \X CandidateLists, o \in SuggestOptionTuples}

InitSuggest == call \in SuggestCalls /\ result = Pending

CallSuggest ==
  /\ call.fn = "suggest" /\ result = Pending
  /\ result' = Outcome(suggest(call.query, call.candidates, call.options))
  /\ UNCHANGED call

NextSuggest == CallSuggest

SpecSuggest == InitSuggest /\ [][NextSuggest]_vars

\* substringSimilarity calls: strings of code units, surrogates included
SubstringAlphabet == {"a", "b", HighSurrogate, LowSurrogate}

SubstringStrings == StringsOver(SubstringAlphabet, MaxSubLen)

SubstringCalls ==
  [fn : {"substringSimilarity"}, query : SubstringStrings,
   candidate : SubstringStrings]

InitSubstring == call \in SubstringCalls /\ result = Pending

CallSubstringSimilarity ==
  /\ call.fn = "substringSimilarity" /\ result = Pending
  /\ result' = Returned(substringSimilarity(call.query, call.candidate))
  /\ UNCHANGED call

NextSubstring == CallSubstringSimilarity

SpecSubstring == InitSubstring /\ [][NextSubstring]_vars

\* direct calls of the engine's Levenshtein and LCS-sequence exports: every
\* short string over two letters and the strings of the documented examples
RawAlphabet == {"a", "b"}

Kitten == <<"k", "i", "t", "t", "e", "n">>
Sitting == <<"s", "i", "t", "t", "i", "n", "g">>
Aggtab == <<"A", "G", "G", "T", "A", "B">>
Gxtxayb == <<"G", "X", "T", "X", "A", "Y", "B">>

RawStrings ==
  StringsOver(RawAlphabet, MaxRawLen) \cup {Kitten, Sitting, Aggtab, Gxtxayb}

RawFunctions ==
  {"levenshtein", "normalized_levenshtein", "lcs_seq_distance",
   "lcs_seq_similarity", "lcs_seq_normalized_similarity"}

RawCalls == [fn : RawFunctions, a : RawStrings, b : RawStrings]

InitRaw == call \in RawCalls /\ result = Pending

CallLevenshtein ==
  /\ call.fn = "levenshtein" /\ result = Pending
  /\ result' = Returned(levenshtein(call.a, call.b))
  /\ UNCHANGED call

CallNormalizedLevenshtein ==
  /\ call.fn = "normalized_levenshtein" /\ result = Pending
  /\ result' = Returned(normalized_levenshtein(call.a, call.b))
  /\ UNCHANGED call

CallLcsSeqDistance ==
  /\ call.fn = "lcs_seq_distance" /\ result = Pending
  /\ result' = Returned(lcs_seq_distance(call.a, call.b))
  /\ UNCHANGED call

CallLcsSeqSimilarity ==
  /\ call.fn = "lcs_seq_similarity" /\ result = Pending
  /\ result' = Returned(lcs_seq_similarity(call.a, call.b))
  /\ UNCHANGED call

CallLcsSeqNormalizedSimilarity ==
  /\ call.fn = "lcs_seq_normalized_similarity" /\ result = Pending
  /\ result' = Returned(lcs_seq_normalized_similarity(call.a, call.b))
  /\ UNCHANGED call

NextRaw ==
  \/ CallLevenshtein
  \/ CallNormalizedLevenshtein
  \/ CallLcsSeqDistance
  \/ CallLcsSeqSimilarity
  \/ CallLcsSeqNormalizedSimilarity

SpecRaw == InitRaw /\ [][NextRaw]_vars

\* normalize, called on an input and then again on what it returned
NormAlphabet == {" ", ".", "E", "acute", "I", "dot"}

NormStrings == StringsOver(NormAlphabet, MaxNormLen)

NormPresets == {Undefined, "none", "minimal", "default", "aggressive"}

NormLocales == {Undefined, "tr", "az", "lt"}

NormCalls ==
  [fn : {"normalize"}, input : NormStrings, preset : NormPresets,
   locale : NormLocales, round : {1}]

InitNormalize == call \in NormCalls /\ result = Pending

CallNormalize ==
  /\ call.fn = "normalize" /\ result = Pending
  /\ result' = Returned(normalize(call.input, call.preset, call.locale))
  /\ UNCHANGED call

\* the caller passes the returned string back in, with the same preset and
\* locale
NormalizeAgain ==
  /\ call.fn = "normalize" /\ call.round = 1 /\ result.kind = "returned"
  /\ call' = [call EXCEPT !.input = result.value, !.round = 2]
  /\ result' = Pending

NextNormalize == CallNormalize \/ NormalizeAgain

SpecNormalize == InitNormalize /\ [][NextNormalize]_vars

\* A caller that keeps its arguments (the choices or candidates array, the
\* options object, the strings) and calls again with them.  `given` is what
\* the caller passed to the first call and `history` the earlier calls with
\* their results; the module has no variable of its own besides the engine
\* instance.
SessionChoiceLists == UNION {[1..n -> ExtractPool] : n \in 0..MaxSessionChoices}

SessionExtractOptions ==
  {s @@ p @@ c @@ l :
     s \in {NoOptions, [scorer |-> [name |-> "partialRatio"]]}
            \cup {[scorer |-> f] : f \in CustomScorers},
     p \in ProcessorOptions,
     c \in {NoOptions, [scoreCutoff |-> RatInt(100)]},
     l \in {NoOptions, [limit |-> 1]}}

SessionSuggestOptions ==
  {m @@ q @@ f :
     m \in {NoOptions, [metric |-> "substring"]},
     q \in {NoOptions, [minScore |-> RatInt(0)]},
     f \in PreferPrefixOptions}

SessionStrings == StringsOver(FuzzAlphabet, MaxSessionLen)

SessionArguments ==
  {[fn |-> f, query |-> q, choices |-> cs, options |-> o] :
     f \in {"extractOne", "extract"}, q \in ExtractQueries,
     cs \in SessionChoiceLists, o \in SessionExtractOptions}
  \cup
  {[fn |-> "suggest", query |-> q, candidates |-> cs, options |-> o] :
     q \in SuggestQueries, cs \in SessionChoiceLists,
     o \in SessionSuggestOptions}
  \cup
  [fn : {"tokenSortRatio", "tokenSetRatio"},
   a : SessionStrings, b : SessionStrings]

\* the functions that take the arguments of f
SameSignature(f) ==
  CASE f \in {"extractOne", "extract"} -> {"extractOne", "extract"}
    [] f = "suggest" -> {"suggest"}
    [] f \in {"tokenSortRatio", "tokenSetRatio"} ->
         {"tokenSortRatio", "tokenSetRatio"}

InitSession ==
  /\ \E c \in SessionArguments : call = c @@ [given |-> c, history |-> <<>>]
  /\ result = Pending

\* the caller takes the result and calls a function of the same signature
\* with the objects it still holds
CallAgain ==
  /\ "history" \in DOMAIN call /\ result # Pending
  /\ Len(call.history) + 1 < MaxCalls
  /\ \E f \in SameSignature(call.fn) :
       call' = [call EXCEPT
                  !.fn = f,
                  !.history = Append(@, [fn |-> call.fn, result |-> result])]
  /\ result' = Pending

NextSession ==
  \/ CallExtractOne
  \/ CallExtract
  \/ CallSuggest
  \/ CallTokenSortRatio
  \/ CallTokenSetRatio
  \/ CallAgain

SpecSession == InitSession /\ [][NextSession]_vars

\* partialRatio on strings with characters outside the Basic Multilingual
\* Plane: a of up to MaxUnitLen code units, surrogates among them, and b of up
\* to MaxUnitLen + 1 letters
UnitStrings == StringsOver({"a", "b"} \cup Surrogates, MaxUnitLen)

LetterStrings == StringsOver({"a", "b"}, MaxUnitLen + 1)

UnitCalls == [fn : {"partialRatio"}, a : UnitStrings, b : LetterStrings]

InitUnits == call \in UnitCalls /\ result = Pending

NextUnits == CallPartialRatio

SpecUnits == InitUnits /\ [][NextUnits]_vars

\* suggest, extractOne and extract with options given in either spelling, in
\* both, or not at all; one option is varied at a time
Spellings(camel, snake, values) ==
  {a @@ b : a \in {NoOptions} \cup {[f \in {camel} |-> v] : v \in values},
            b \in {NoOptions} \cup {[f \in {snake} |-> v] : v \in values}}

PresetSpellings ==
  {a @@ b : a \in {NoOptions, [preset |-> "none"], [preset |-> "default"]},
            b \in Spellings("normalizePreset", "normalize_preset",
                            {"none", "default"})}

SuggestSpellings ==
  PresetSpellings
  \cup Spellings("minScore", "min_score", {RatInt(0), RatInt(1)})
  \cup Spellings("maxSuggestions", "max_suggestions", {0, 1})
  \cup Spellings("preferPrefix", "prefer_prefix", {TRUE, FALSE})
  \cup Spellings("jaroPrefixScale", "jaro_prefix_scale", {RatInt(0), Rat(2, 10)})
  \cup Spellings("jaroMaxPrefix", "jaro_max_prefix", {0, 1})

ExtractSpellings ==
  {c @@ f : c \in Spellings("scoreCutoff", "score_cutoff",
                            {RatInt(0), RatInt(100)}),
            f \in {NoOptions} \cup {[scorer |-> t] : t \in CustomScorers}}

\* a query and a candidate with a common prefix longer than the default
\* jaroMaxPrefix, and more candidates than the default maxSuggestions
LongQuery == <<"a", "a", "a", "a", "a", "b">>
LongCandidate == <<"a", "a", "a", "a", "a", "a">>
SixCandidates == [k \in 1..6 |-> <<"a", "b">>]

OptionChoiceLists == UNION {[1..n -> ExtractPool] : n \in 0..MaxOptionChoices}

OptionCalls ==
  {[fn |-> "suggest", query |-> q, candidates |-> cs, options |-> o] :
     q \in SuggestQueries \cup {LongQuery},
     cs \in OptionChoiceLists \cup {<<LongCandidate>>, SixCandidates},
     o \in SuggestSpellings}
  \cup
  {[fn |-> f, query |-> q, choices |-> cs, options |-> o] :
     f \in {"extractOne", "extract"}, q \in ExtractQueries,
     cs \in OptionChoiceLists, o \in ExtractSpellings}

InitOptions == call \in OptionCalls /\ result = Pending

NextOptions == CallSuggest \/ CallExtractOne \/ CallExtract

SpecOptions == InitOptions /\ [][NextOptions]_vars

\* a token-ratio function called on a pair of strings and then on the same
\* pair the other way round; `before` is the result of the first call
SwapStrings == StringsOver(FuzzAlphabet, MaxSwapLen)

SwapCalls ==
  [fn : {"partialRatio", "tokenSortRatio", "tokenSetRatio"},
   a : SwapStrings, b : SwapStrings, before : {Pending}]

InitSwap == call \in SwapCalls /\ result = Pending

CallSwapped ==
  /\ "before" \in DOMAIN call /\ call.before = Pending /\ result # Pending
  /\ call' = [call EXCEPT !.a = call.b, !.b = call.a, !.before = result]
  /\ result' = Pending

NextSwap ==
  \/ CallPartialRatio
  \/ CallTokenSortRatio
  \/ CallTokenSetRatio
  \/ CallSwapped

SpecSwap == InitSwap /\ [][NextSwap]_vars

\* distance and score together with suggest: every entry point that takes a
\* metric identifier
InitMetric == InitDispatch \/ InitSuggest

NextMetric == NextDispatch \/ NextSuggest

SpecMetric == InitMetric /\ [][NextMetric]_vars

\* extractOne and extract together with suggest: the list operations
InitRank == InitExtract \/ InitSuggest

NextRank == NextExtract \/ NextSuggest

SpecRank == InitRank /\ [][NextRank]_vars

-----------------------------------------------------------------------------
(* Properties of the token-ratio functions.                                *)

Hundred == RatInt(100)
Zero == RatInt(0)

\* the positions where a whitespace-delimited token of s starts
TokenStarts(s) ==
  {i \in 1..Len(s) : ~IsSpace(s[i]) /\ (i = 1 \/ IsSpace(s[i - 1]))}

\* the token of s that starts at position i: the maximal run without whitespace
TokenAt(s, i) ==
  LET j == CHOOSE e \in i..Len(s) :
             /\ \A k \in i..e : ~IsSpace(s[k])
             /\ (e = Len(s) \/ IsSpace(s[e + 1]))
  IN  SubSeq(s, i, j)

\* the tokens of s in the order they occur
TokensInOrder(s) ==
  [k \in 1..Cardinality(TokenStarts(s)) |-> TokenAt(s, KthSmallest(TokenStarts(s), k))]

\* the set of tokens of s
TokenSet(s) == {TokenAt(s, i) : i \in TokenStarts(s)}

\* the tokens of s in sorted order, duplicates kept: the k-th is the token t
\* with fewer than k tokens before it and at least k tokens not after it
SortedTokens(s) ==
  [k \in 1..Cardinality(TokenStarts(s)) |->
     CHOOSE t \in TokenSet(s) :
       /\ Cardinality({i \in TokenStarts(s) : StrLess(TokenAt(s, i), t)}) < k
       /\ k <= Cardinality({i \in TokenStarts(s) : ~StrLess(t, TokenAt(s, i))})]

\* the members of a set of strings in sorted order
SortedMembers(S) ==
  [k \in 1..Cardinality(S) |->
     CHOOSE t \in S : Cardinality({u \in S : StrLess(u, t)}) = k - 1]

Spaces(k) == [i \in 1..k |-> " "]

\* s with its tokens permuted and the whitespace between them changed
Rearrangements(s) ==
  LET toks == TokensInOrder(s)
  IN  {JoinWith([k \in 1..Len(toks) |-> toks[p[k]]], Spaces(w)) :
         p \in Permutations(1..Len(toks)), w \in 1..2}

\* C8: tokenSortRatio(a, b) is ratio of the two strings made of each input's
\* tokens, sorted and joined by single spaces; permuting the tokens of either
\* argument or changing the whitespace between them leaves the result
\* unchanged, and it is 100 when b's tokens are a permutation of a's.
C8_TokenSortOrderInsensitive ==
  (call.fn = "tokenSortRatio" /\ result # Pending) =>
    /\ result.kind = "returned"
    /\ result.value = ratio(JoinWith(SortedTokens(call.a), <<" ">>),
                            JoinWith(SortedTokens(call.b), <<" ">>))
    /\ \A a2 \in Rearrangements(call.a) :
         tokenSortRatio(a2, call.b) = result.value
    /\ \A b2 \in Rearrangements(call.b) :
         tokenSortRatio(call.a, b2) = result.value
    /\ (SortedTokens(call.a) = SortedTokens(call.b) => result.value = Hundred)

\* C8 witness: two inputs with the same two distinct tokens in different
\* order have been compared
C8_Witness ==
  /\ call.fn = "tokenSortRatio" /\ result.kind = "returned"
  /\ Cardinality(TokenSet(call.a)) = 2
  /\ TokensInOrder(call.a) # TokensInOrder(call.b)
  /\ SortedTokens(call.a) = SortedTokens(call.b)
  /\ result.value = Hundred

\* C9: with s the shorter and l the longer input, partialRatio is 100 when l
\* contains s, else the greatest ratio(s, w) over the windows w of length
\* len(s) at every offset of l; 0 when exactly one input is empty, 100 when
\* both are.
C9_PartialRatioBestWindow ==
  (call.fn = "partialRatio" /\ result # Pending) =>
    LET s == IF Len(call.a) <= Len(call.b) THEN call.a ELSE call.b
        l == IF Len(call.a) <= Len(call.b) THEN call.b ELSE call.a
        windows == {SubSeq(l, k + 1, k + Len(s)) : k \in 0..(Len(l) - Len(s))}
    IN  /\ result.kind = "returned"
        /\ IF Len(s) = 0
           THEN result.value = (IF Len(l) = 0 THEN Hundred ELSE Zero)
           ELSE IF s \in windows
           THEN result.value = Hundred
           ELSE /\ \E w \in windows : result.value = ratio(s, w)
                /\ \A w \in windows : RatLE(ratio(s, w), result.value)

\* C9 witness: the shorter input is not contained in the longer one and the
\* best window is the last one only
C9_Witness ==
  /\ call.fn = "partialRatio" /\ result.kind = "returned"
  /\ Len(call.a) > 0 /\ Len(call.a) + 2 <= Len(call.b)
  /\ ~Includes(call.b, call.a)
  /\ \A k \in 0..(Len(call.b) - Len(call.a) - 1) :
       RatLT(ratio(call.a, SubSeq(call.b, k + 1, k + Len(call.a))), result.value)

\* C7: with I the sorted, joined intersection of the token sets and D_a, D_b
\* the sorted, joined tokens special to each side, strA = I + (" " + D_a if
\* D_a is not empty) and strB likewise, tokenSetRatio is the greatest of
\* ratio(strA, strB), ratio(I, I), ratio(I, strA), ratio(I, strB) when I is not
\* empty and ratio(strA, strB) alone when it is (never 100 then); inputs
\* without tokens give 100 when both have none and 0 when one has none.
C7_TokenSetFormula ==
  (call.fn = "tokenSetRatio" /\ result # Pending) =>
    LET A == TokenSet(call.a)
        B == TokenSet(call.b)
        I == JoinWith(SortedMembers(A \cap B), <<" ">>)
        Da == JoinWith(SortedMembers(A \ B), <<" ">>)
        Db == JoinWith(SortedMembers(B \ A), <<" ">>)
        strA == I \o (IF Da # <<>> THEN <<" ">> \o Da ELSE <<>>)
        strB == I \o (IF Db # <<>> THEN <<" ">> \o Db ELSE <<>>)
        four == {ratio(strA, strB), ratio(I, I), ratio(I, strA), ratio(I, strB)}
    IN  /\ result.kind = "returned"
        /\ IF A = {} /\ B = {} THEN result.value = Hundred
           ELSE IF A = {} \/ B = {} THEN result.value = Zero
           ELSE IF I # <<>>
           THEN /\ result.value \in four
                /\ \A r \in four : RatLE(r, result.value)
           ELSE /\ result.value = ratio(strA, strB)
                /\ result.value # Hundred

\* C7 witness: two inputs with tokens but no common token have been compared,
\* and the score is that of the two joined strings, which share the space
C7_Witness ==
  /\ call.fn = "tokenSetRatio" /\ result.kind = "returned"
  /\ Cardinality(TokenSet(call.a)) = 2 /\ TokenSet(call.b) # {}
  /\ TokenSet(call.a) \cap TokenSet(call.b) = {}
  /\ RatLT(Zero, result.value) /\ RatLT(result.value, Hundred)

\* C10: partialRatio, tokenSortRatio and tokenSetRatio return a value in
\* [0, 100], and score returns a value in [0, 1] for every metric identifier
\* it accepts.
C10_Bounds ==
  /\ (call.fn \in {"partialRatio", "tokenSortRatio", "tokenSetRatio"}
        /\ result # Pending) =>
       /\ result.kind = "returned"
       /\ RatLE(Zero, result.value) /\ RatLE(result.value, Hundred)
  /\ (call.fn = "score" /\ result.kind = "returned") =>
       /\ RatLE(Zero, result.value) /\ RatLE(result.value, RatInt(1))

\* C10 witness: score has returned a value strictly between 0 and 1 for a
\* token ratio whose 0-100 value is strictly between 1 and 100
C10_Witness ==
  /\ call.fn = "score" /\ result.kind = "returned"
  /\ "metric" \in DOMAIN call /\ call.metric = "token_set_ratio"
  /\ RatLT(RatInt(1), tokenSetRatio(call.a, call.b))
  /\ RatLT(Zero, result.value) /\ RatLT(result.value, RatInt(1))

-----------------------------------------------------------------------------
(* Properties of extractOne and extract.                                   *)

\* the score of the choice at 0-based index i in the current call
ExtractScore(i) ==
  ScoredChoice(call.query, call.choices, normalizeExtractOptions(call.options), i).score

ExtractCutoff == normalizeExtractOptions(call.options).scoreCutoff

\* the indices of the choices with score >= scoreCutoff
Qualifying ==
  {i \in 0..(Len(call.choices) - 1) : RatGE(ExtractScore(i), ExtractCutoff)}

\* the qualifying indices of highest score
TopQualifying ==
  {i \in Qualifying : \A j \in Qualifying : RatLE(ExtractScore(j), ExtractScore(i))}

\* C2: extractOne returns the choice of highest score among those with
\* score >= scoreCutoff, the one of smallest index when several share that
\* score, and null when no choice qualifies or choices is empty; it never
\* raises.
C2_ExtractOneBest ==
  (call.fn = "extractOne" /\ result # Pending) =>
    /\ result.kind = "returned"
    /\ IF Qualifying = {} THEN result.value = Null
       ELSE LET first == CHOOSE i \in TopQualifying : \A j \in TopQualifying : i <= j
            IN  result.value = [choice |-> call.choices[first + 1],
                                score |-> ExtractScore(first),
                                index |-> first]

\* C2 witness: two choices share the highest score, which is exactly the
\* cutoff, a third choice is below it, and the first of the two is returned
C2_Witness ==
  /\ call.fn = "extractOne" /\ result.kind = "returned"
  /\ result.value # Null
  /\ Cardinality(TopQualifying) = 2
  /\ Cardinality(Qualifying) < Len(call.choices)
  /\ result.value.score = ExtractCutoff
  /\ 0 \notin Qualifying

\* C3: extract returns exactly the choices with score >= scoreCutoff, each
\* with its score and index, by score descending, and with a limit >= 0 only
\* the first `limit` of them; [] for an empty list of choices.
C3_ExtractAllQualifying ==
  (call.fn = "extract" /\ result # Pending) =>
    /\ result.kind = "returned"
    /\ LET out == result.value
           n == Cardinality(Qualifying)
           want == IF "limit" \in DOMAIN call.options
                   THEN Min2(call.options.limit, n) ELSE n
           outIndex == {out[k].index : k \in 1..Len(out)}
       IN  /\ Len(out) = want
           /\ Cardinality(outIndex) = Len(out)
           /\ outIndex \subseteq Qualifying
           /\ \A k \in 1..Len(out) :
                /\ out[k].choice = call.choices[out[k].index + 1]
                /\ out[k].score = ExtractScore(out[k].index)
           /\ \A k \in 1..(Len(out) - 1) : RatGE(out[k].score, out[k + 1].score)
           /\ \A i \in Qualifying \ outIndex : \A k \in 1..Len(out) :
                \/ RatLT(ExtractScore(i), out[k].score)
                \/ ExtractScore(i) = out[k].score /\ out[k].index < i
           /\ (Len(call.choices) = 0 => out = <<>>)

\* C3 witness: a limit cuts the qualifying choices short, one choice does not
\* qualify, and a returned choice scores exactly the cutoff
C3_Witness ==
  /\ call.fn = "extract" /\ result.kind = "returned"
  /\ "limit" \in DOMAIN call.options
  /\ 0 < call.options.limit /\ call.options.limit < Cardinality(Qualifying)
  /\ Cardinality(Qualifying) < Len(call.choices)
  /\ \E k \in 1..Len(result.value) : result.value[k].score = ExtractCutoff

-----------------------------------------------------------------------------
(* Properties of suggest.                                                  *)

SuggestOpts == normalizeSuggestionOptions(call.options).value

SuggestPreset ==
  IF "preset" \in DOMAIN call.options THEN call.options.preset ELSE "default"

SuggestNormQuery == normalize(call.query, SuggestPreset, Undefined)

\* the raw score of the metric for the candidate at position k
RawScore(k) ==
  computeSimilarity(SuggestOpts.metric, SuggestNormQuery,
                    normalize(call.candidates[k], SuggestPreset, Undefined),
                    [prefixScale |-> SuggestOpts.jaroPrefixScale,
                     maxPrefix |-> SuggestOpts.jaroMaxPrefix]).score

\* the candidate at position k is entitled to the prefix bonus
Prefixed(k) ==
  /\ SuggestOpts.preferPrefix
  /\ StartsWith(normalize(call.candidates[k], SuggestPreset, Undefined), SuggestNormQuery)

\* the final score of the candidate at position k
FinalScore(k) ==
  ScoredCandidate(call.candidates, k, SuggestNormQuery, SuggestPreset, SuggestOpts).score

\* the positions of the candidates with final score >= minScore
Suggestable ==
  {k \in 1..Len(call.candidates) : RatGE(FinalScore(k), SuggestOpts.minScore)}

C4_SuggestFilterSortTruncate ==
  (call.fn = "suggest" /\ result.kind = "returned") =>
    LET out == result.value
        n == Cardinality(Suggestable)
        outPos == {out[k].pos : k \in 1..Len(out)}
    IN  /\ Len(out) = Min2(SuggestOpts.maxSuggestions, n)
        /\ Cardinality(outPos) = Len(out)
        /\ outPos \subseteq Suggestable
        /\ \A k \in 1..Len(out) :
             /\ out[k].value = call.candidates[out[k].pos]
             /\ out[k].score = FinalScore(out[k].pos)
             /\ RatGE(out[k].score, SuggestOpts.minScore)
        /\ \A k \in 1..(Len(out) - 1) : RatGE(out[k].score, out[k + 1].score)
        /\ \A p \in Suggestable \ outPos : \A k \in 1..Len(out) :
             RatLE(FinalScore(p), out[k].score)

\* C4 witness: more candidates qualify than maxSuggestions allows, one
\* candidate is below minScore, and a returned one scores exactly minScore
C4_Witness ==
  /\ call.fn = "suggest" /\ result.kind = "returned"
  /\ 0 < Len(result.value)
  /\ Len(result.value) < Cardinality(Suggestable)
  /\ Cardinality(Suggestable) < Len(call.candidates)
  /\ \E k \in 1..Len(result.value) : result.value[k].score = SuggestOpts.minScore

\* score + (1 - score) * 0.1
BonusFormula(s) == Rat(9 * s.n + s.d, 10 * s.d)

\* C5 as claimed: with preferPrefix, a candidate whose normalized form starts
\* with the normalized query has final score exactly score + (1 - score) * 0.1
\* for every raw score, those above 1.0 included; every other candidate keeps
\* its raw score.
C5_PrefixBonusUnclamped ==
  (call.fn = "suggest" /\ result.kind = "returned") =>
    \A k \in 1..Len(result.value) :
      LET e == result.value[k]
      IN  e.score = IF Prefixed(e.pos) THEN BonusFormula(RawScore(e.pos))
                    ELSE RawScore(e.pos)

\* C5 amended: with preferPrefix, a candidate whose normalized form starts
\* with the normalized query has final score min(1, score + (1 - score) * 0.1),
\* which is score + (1 - score) * 0.1 for every raw score up to 1.0 and 1.0 for
\* a raw score above 1.0; every other candidate keeps its raw score.
C5_PrefixBonusClamped ==
  (call.fn = "suggest" /\ result.kind = "returned") =>
    \A k \in 1..Len(result.value) :
      LET e == result.value[k]
          raw == RawScore(e.pos)
      IN  e.score = IF ~Prefixed(e.pos) THEN raw
                    ELSE IF RatLE(raw, RatInt(1)) THEN BonusFormula(raw)
                    ELSE RatInt(1)

\* C5 witness: the output holds a candidate that got the bonus on a raw score
\* above 1.0 and ends at 1.0, next to a candidate without the prefix that keeps
\* its raw score
C5_Witness ==
  /\ call.fn = "suggest" /\ result.kind = "returned"
  /\ \E k \in 1..Len(result.value) :
       /\ Prefixed(result.value[k].pos)
       /\ RatLT(RatInt(1), RawScore(result.value[k].pos))
       /\ result.value[k].score = RatInt(1)
  /\ \E k \in 1..Len(result.value) :
       /\ ~Prefixed(result.value[k].pos)
       /\ SuggestOpts.preferPrefix
       /\ result.value[k].score = RawScore(result.value[k].pos)

\* C5 witness of the bonus below 1.0: a candidate with the prefix and a raw
\* score under 1.0 ends strictly between its raw score and 1.0
C5_WitnessBelowOne ==
  /\ call.fn = "suggest" /\ result.kind = "returned"
  /\ \E k \in 1..Len(result.value) :
       /\ Prefixed(result.value[k].pos)
       /\ RatLT(RawScore(result.value[k].pos), result.value[k].score)
       /\ RatLT(result.value[k].score, RatInt(1))

-----------------------------------------------------------------------------
(* Properties of the metric identifiers.                                   *)

\* the identifiers of the DistanceMetric type
DistanceMetric ==
  {"levenshtein", "damerauLevenshtein", "osa", "indel", "lcsSeq",
   "damerau_levenshtein", "damerau_unrestricted", "damerau_osa", "lcs_seq"}

\* the identifiers of the SimilarityMetric type
SimilarityMetric ==
  {"levenshtein", "damerauLevenshtein", "osa", "jaro", "jaroWinkler", "indel",
   "lcsSeq", "ratio", "partialRatio", "tokenSortRatio", "tokenSetRatio",
   "damerau_levenshtein", "damerau_unrestricted", "damerau_osa", "jaro_winkler",
   "lcs_seq", "partial_ratio", "token_sort_ratio", "token_set_ratio"}

\* the identifiers of the SuggestMetric type
SuggestMetric ==
  {"levenshtein", "damerauOsa", "damerauUnrestricted", "jaro", "jaroWinkler",
   "substring", "ratio", "partialRatio", "tokenSortRatio", "tokenSetRatio",
   "indel", "lcsSeq",
   "damerau_osa", "damerau_unrestricted", "jaro_winkler", "partial_ratio",
   "token_sort_ratio", "token_set_ratio", "lcs_seq"}

\* C6: a metric identifier the entry point does not know makes distance,
\* score and suggest raise an error instead of returning a value; suggest
\* raises whatever the candidates are, an empty list included, and leaves no
\* list of suggestions beside the error.
C6_UnknownMetricRaises ==
  /\ (call.fn = "distance" /\ result # Pending /\ "metric" \in DOMAIN call
        /\ call.metric \notin DistanceMetric) =>
       result = Thrown("Unknown distance metric")
  /\ (call.fn = "score" /\ result # Pending /\ "metric" \in DOMAIN call
        /\ call.metric \notin SimilarityMetric) =>
       result = Thrown("Unknown similarity metric")
  /\ (call.fn = "suggest" /\ result # Pending /\ "metric" \in DOMAIN call.options
        /\ call.options.metric \notin SuggestMetric) =>
       /\ result = Thrown("Unknown suggestion metric")
       /\ "value" \notin DOMAIN result

\* C6 witness: suggest has raised on an unknown metric with no candidate to
\* score
C6_Witness ==
  /\ call.fn = "suggest" /\ result.kind = "thrown"
  /\ call.candidates = <<>>
  /\ call.options.metric = "hamming"

-----------------------------------------------------------------------------
(* Properties of the dispatcher.                                           *)

\* the 0-100 function a ratio-family identifier names
NativeRatio(metric, a, b) ==
  CASE metric = "ratio" -> ratio(a, b)
    [] metric \in {"partialRatio", "partial_ratio"} -> partialRatio(a, b)
    [] metric \in {"tokenSortRatio", "token_sort_ratio"} -> tokenSortRatio(a, b)
    [] metric \in {"tokenSetRatio", "token_set_ratio"} -> tokenSetRatio(a, b)

RatioFamily ==
  {"ratio", "partialRatio", "partial_ratio", "tokenSortRatio",
   "token_sort_ratio", "tokenSetRatio", "token_set_ratio"}

\* the engine's normalized similarity every other identifier names
EngineSimilarity(metric, a, b) ==
  CASE metric = "levenshtein" -> normalized_levenshtein(a, b)
    [] metric \in {"damerauLevenshtein", "damerau_levenshtein",
                   "damerau_unrestricted"}
         -> normalized_damerau_levenshtein(a, b)
    [] metric \in {"osa", "damerau_osa"} -> normalized_osa_similarity(a, b)
    [] metric = "jaro" -> jaro(a, b)
    [] metric \in {"jaroWinkler", "jaro_winkler"} -> jaro_winkler(a, b)
    [] metric = "indel" -> indel_normalized_similarity(a, b)
    [] metric \in {"lcsSeq", "lcs_seq"} -> lcs_seq_normalized_similarity(a, b)

\* C11: distance without a metric is levenshtein, score without a metric is
\* jaro_winkler; score with ratio, partialRatio, tokenSortRatio or
\* tokenSetRatio is the native 0-100 result divided by 100, and with every
\* other metric the engine's normalized similarity unchanged.
C11_DispatcherDefaultsAndScale ==
  /\ (call.fn = "distance" /\ result # Pending /\ "metric" \notin DOMAIN call) =>
       result = Returned(levenshtein(call.a, call.b))
  /\ (call.fn = "score" /\ result # Pending /\ "metric" \notin DOMAIN call) =>
       result = Returned(jaro_winkler(call.a, call.b))
  /\ (call.fn = "score" /\ result # Pending /\ "metric" \in DOMAIN call
        /\ call.metric \in RatioFamily) =>
       /\ result.kind = "returned"
       /\ RatMul(result.value, RatInt(100)) = NativeRatio(call.metric, call.a, call.b)
  /\ (call.fn = "score" /\ result # Pending /\ "metric" \in DOMAIN call
        /\ call.metric \in SimilarityMetric \ RatioFamily) =>
       result = Returned(EngineSimilarity(call.metric, call.a, call.b))

\* C11 witness: score without a metric has returned a Jaro-Winkler value that
\* plain Jaro does not give
C11_Witness ==
  /\ call.fn = "score" /\ result.kind = "returned"
  /\ "metric" \notin DOMAIN call
  /\ result.value # jaro(call.a, call.b)
  /\ RatLT(result.value, RatInt(1))

-----------------------------------------------------------------------------
(* Properties of the two spellings of the metric identifiers.              *)

\* the identifiers of more than one word: <<camelCase, snake_case>>
SpellingPairs ==
  {<<"damerauLevenshtein", "damerau_levenshtein">>,
   <<"damerauOsa", "damerau_osa">>,
   <<"damerauUnrestricted", "damerau_unrestricted">>,
   <<"jaroWinkler", "jaro_winkler">>,
   <<"lcsSeq", "lcs_seq">>,
   <<"partialRatio", "partial_ratio">>,
   <<"tokenSortRatio", "token_sort_ratio">>,
   <<"tokenSetRatio", "token_set_ratio">>}

\* the other spelling of an identifier (itself for a one-word identifier)
OtherSpelling(metric) ==
  IF \E p \in SpellingPairs : metric \in {p[1], p[2]}
  THEN LET p == CHOOSE q \in SpellingPairs : metric \in {q[1], q[2]}
       IN  IF metric = p[1] THEN p[2] ELSE p[1]
  ELSE metric

\* C12: in each of distance, score and suggest the camelCase and the
\* snake_case spelling of one metric identifier give identical results,
\* and neither spelling is rejected where the other is accepted.
C12_SpellingsAgree ==
  /\ (call.fn = "distance" /\ result # Pending /\ "metric" \in DOMAIN call) =>
       result = Outcome(distance(call.a, call.b, OtherSpelling(call.metric)))
  /\ (call.fn = "score" /\ result # Pending /\ "metric" \in DOMAIN call) =>
       result = Outcome(score(call.a, call.b, OtherSpelling(call.metric)))
  /\ (call.fn = "suggest" /\ result # Pending
        /\ "metric" \in DOMAIN call.options) =>
       result = Outcome(suggest(call.query, call.candidates,
                  [call.options EXCEPT !.metric = OtherSpelling(call.options.metric)]))

-----------------------------------------------------------------------------
(* Properties of substringSimilarity.                                      *)

QueryPoints == toCodePoints(call.query)

CandidatePoints == toCodePoints(call.candidate)

\* q[sa..ea) and c[sb..eb) are the same run of k code points
CommonRun(q, c, sa, sb, k) ==
  /\ 0 <= sa /\ sa + k <= Len(q)
  /\ 0 <= sb /\ sb + k <= Len(c)
  /\ \A o \in 1..k : q[sa + o] = c[sb + o]

\* the lengths of the common contiguous runs of q and c
CommonRunLengths(q, c) ==
  {k \in 0..Min2(Len(q), Len(c)) :
     \E sa \in 0..Len(q), sb \in 0..Len(c) : CommonRun(q, c, sa, sb, k)}

LongestCommonRun(q, c) ==
  CHOOSE k \in CommonRunLengths(q, c) : \A l \in CommonRunLengths(q, c) : l <= k

\* C13: over the code points of query (m of them) and candidate (n),
\* substringSimilarity returns score = 2*maxLen/(m+n) for the length maxLen of
\* the longest common contiguous run, and half-open ranges of that length,
\* inside the inputs, that select equal runs; without a common character the
\* score is 0 and both ranges are [0, 0].
C13_SubstringScoreAndRanges ==
  (call.fn = "substringSimilarity" /\ result # Pending) =>
    LET q == QueryPoints
        c == CandidatePoints
        maxLen == LongestCommonRun(q, c)
        r == result.value
        sa == r.queryRange[1]
        ea == r.queryRange[2]
        sb == r.candidateRange[1]
        eb == r.candidateRange[2]
    IN  /\ result.kind = "returned"
        /\ IF maxLen = 0
           THEN /\ r.score = RatInt(0)
                /\ r.queryRange = <<0, 0>>
                /\ r.candidateRange = <<0, 0>>
           ELSE /\ RatMul(r.score, RatInt(Len(q) + Len(c))) = RatInt(2 * maxLen)
                /\ ea - sa = maxLen /\ eb - sb = maxLen
                /\ 0 <= sa /\ sa <= ea /\ ea <= Len(q)
                /\ 0 <= sb /\ sb <= eb /\ eb <= Len(c)
                /\ CommonRun(q, c, sa, sb, maxLen)

\* C13 witness: the longest common run is a surrogate pair, one code point of
\* two code units, that starts inside the candidate and is shorter than it, so
\* that code-point offsets differ from code-unit offsets
C13_Witness ==
  /\ call.fn = "substringSimilarity" /\ result.kind = "returned"
  /\ Len(QueryPoints) < Len(call.query)
  /\ 0 < result.value.candidateRange[1]
  /\ result.value.queryRange[2] = Len(QueryPoints)
  /\ result.value.queryRange[2] - result.value.queryRange[1] = 1
  /\ QueryPoints[result.value.queryRange[2]] = "HL"
  /\ RatLT(result.value.score, RatInt(1))

\* the end cells <<ea, eb>> of the common runs of maximal length
MaximalRunEnds(q, c) ==
  LET maxLen == LongestCommonRun(q, c)
  IN  {e \in (1..Len(q)) \X (1..Len(c)) :
         maxLen > 0 /\ CommonRun(q, c, e[1] - maxLen, e[2] - maxLen, maxLen)}

\* row-major order of DP cells: e is scanned before f, or is f
ScannedNoLater(e, f) == e[1] < f[1] \/ (e[1] = f[1] /\ e[2] <= f[2])

ReportedEnd == <<result.value.queryRange[2], result.value.candidateRange[2]>>

\* C14 as claimed: among several common runs of maximal length,
\* substringSimilarity reports the one that ends at the last DP cell scanned in
\* row-major order (largest query end, then largest candidate end).
C14_LastMaximalRunReported ==
  (call.fn = "substringSimilarity" /\ result # Pending
     /\ MaximalRunEnds(QueryPoints, CandidatePoints) # {}) =>
    /\ ReportedEnd \in MaximalRunEnds(QueryPoints, CandidatePoints)
    /\ \A e \in MaximalRunEnds(QueryPoints, CandidatePoints) :
         ScannedNoLater(e, ReportedEnd)

\* C14 amended: among several common runs of maximal length,
\* substringSimilarity reports the one that ends at the first DP cell scanned
\* in row-major order (smallest query end, then smallest candidate end).
C14_FirstMaximalRunReported ==
  (call.fn = "substringSimilarity" /\ result # Pending
     /\ MaximalRunEnds(QueryPoints, CandidatePoints) # {}) =>
    /\ ReportedEnd \in MaximalRunEnds(QueryPoints, CandidatePoints)
    /\ \A e \in MaximalRunEnds(QueryPoints, CandidatePoints) :
         ScannedNoLater(ReportedEnd, e)

\* C14 witness: maximal runs tie both within the reported row and across rows
C14_Witness ==
  /\ call.fn = "substringSimilarity" /\ result.kind = "returned"
  /\ \E e, f \in MaximalRunEnds(QueryPoints, CandidatePoints) :
       /\ e[1] = ReportedEnd[1] /\ e[2] > ReportedEnd[2]
       /\ f[1] > ReportedEnd[1] /\ f[2] < ReportedEnd[2]

-----------------------------------------------------------------------------
(* Algebraic properties of the metrics.                                    *)

\* C15: for every string a, the empty one included, distance(a, a, metric) is
\* 0 for every distance metric and score(a, a, metric) is 1.0 for every
\* similarity metric, the 0-100 ratio family included.
C15_Identity ==
  /\ (call.fn = "distance" /\ result # Pending /\ call.a = call.b
        /\ Nullish(call, "metric", "levenshtein") \in DistanceMetric) =>
       result = Returned(0)
  /\ (call.fn = "score" /\ result # Pending /\ call.a = call.b
        /\ Nullish(call, "metric", "jaroWinkler") \in SimilarityMetric) =>
       result = Returned(RatInt(1))

\* C15 witness: score of the empty string against itself under partialRatio
\* has returned 1.0
C15_Witness ==
  /\ call.fn = "score" /\ result = Returned(RatInt(1))
  /\ call.a = <<>> /\ call.b = <<>>
  /\ "metric" \in DOMAIN call /\ call.metric = "partialRatio"

\* C16: substringSimilarity(a, a).score is 1.0 for every string a, the empty
\* string included.
C16_SubstringIdentity ==
  (call.fn = "substringSimilarity" /\ result # Pending
     /\ call.query = call.candidate) =>
    result.value.score = RatInt(1)

\* C16 for the strings that have a character: substringSimilarity(a, a).score
\* is 1.0 for every non-empty string a, with both ranges the whole string
SubstringIdentityNonEmpty ==
  (call.fn = "substringSimilarity" /\ result # Pending
     /\ call.query = call.candidate /\ call.query # <<>>) =>
    /\ result.value.score = RatInt(1)
    /\ result.value.queryRange = <<0, Len(QueryPoints)>>
    /\ result.value.candidateRange = <<0, Len(QueryPoints)>>

\* C17: for all strings a, b the distances levenshtein, osa,
\* damerauLevenshtein, indel and lcsSeq give the same value for (a, b) and for
\* (b, a).
C17_DistanceSymmetry ==
  (call.fn = "distance" /\ result # Pending
     /\ Nullish(call, "metric", "levenshtein") \in DistanceMetric) =>
    /\ result.kind = "returned"
    /\ result = Outcome(distance(call.b, call.a,
                                 Nullish(call, "metric", "levenshtein")))

\* C17 witness: an unrestricted Damerau distance between strings of different
\* lengths, below their OSA distance because a transposition spans an inserted
\* character
C17_Witness ==
  /\ call.fn = "distance" /\ result.kind = "returned"
  /\ "metric" \in DOMAIN call /\ call.metric = "damerauLevenshtein"
  /\ Len(call.a) < Len(call.b)
  /\ result.value < osa_distance(call.a, call.b)

-----------------------------------------------------------------------------
(* Properties of the LCS-sequence and Levenshtein exports.                 *)

\* the subsequence of s at the positions I
Pick(s, I) ==
  [k \in 1..Cardinality(I) |->
     s[CHOOSE t \in I : Cardinality({u \in I : u < t}) = k - 1]]

Subsequences(s) == {Pick(s, I) : I \in SUBSET (1..Len(s))}

\* the length of a longest common subsequence of a and b
LongestCommonSubsequence(a, b) ==
  LET common == Subsequences(a) \cap Subsequences(b)
  IN  CHOOSE k \in 0..Len(a) :
        /\ \E x \in common : Len(x) = k
        /\ \A x \in common : Len(x) <= k

\* lo <= x <= hi for rationals
Between(x, lo, hi) == RatLE(lo, x) /\ RatLE(x, hi)

C19_LcsSeqScenario ==
  (result # Pending /\ call.a = Aggtab /\ call.b = Gxtxayb) =>
    /\ call.fn = "lcs_seq_distance" => result.value = 3
    /\ call.fn = "lcs_seq_similarity" => result.value = 4
    /\ call.fn = "lcs_seq_normalized_similarity" =>
         /\ result.value = Rat(2 * 4, 14)
         /\ Between(result.value, Rat(57135, 100000), Rat(57145, 100000))

\* C19 witness: lcs_seq_distance has returned for the documented pair, whose
\* longest common subsequence has 4 characters
C19_Witness ==
  /\ call.fn = "lcs_seq_distance" /\ result.kind = "returned"
  /\ call.a = Aggtab /\ call.b = Gxtxayb
  /\ LongestCommonSubsequence(call.a, call.b) = 4

\* C20 as claimed: levenshtein("kitten", "sitting") is 3 and
\* normalizedLevenshtein of the pair is about 0.428571.
C20_LevenshteinScenarioAsClaimed ==
  (result # Pending /\ call.a = Kitten /\ call.b = Sitting) =>
    /\ call.fn = "levenshtein" => result.value = 3
    /\ call.fn = "normalized_levenshtein" =>
         Between(result.value, Rat(4285705, 10000000), Rat(4285715, 10000000))

\* C20 amended: levenshtein("kitten", "sitting") is 3 and normalizedLevenshtein
\* of the pair is 1 - 3/7, about 0.571429, the similarity being
\* 1 - distance / max(m, n).
C20_LevenshteinScenario ==
  (result # Pending /\ call.a = Kitten /\ call.b = Sitting) =>
    /\ call.fn = "levenshtein" => result.value = 3
    /\ call.fn = "normalized_levenshtein" =>
         /\ result.value = RatSub(RatInt(1), Rat(3, 7))
         /\ Between(result.value, Rat(5714285, 10000000), Rat(5714295, 10000000))

\* C20 witness: normalized_levenshtein has returned for the documented pair
C20_Witness ==
  /\ call.fn = "normalized_levenshtein" /\ result.kind = "returned"
  /\ call.a = Kitten /\ call.b = Sitting
  /\ RatLT(Rat(1, 2), result.value)

-----------------------------------------------------------------------------
(* Properties of normalize.                                                *)

\* C21: normalizing a string that normalize returned, with the same preset
\* and locale, returns it unchanged; and the preset none returns its input
C21_NormalizeIdempotent ==
  (call.fn = "normalize" /\ result.kind = "returned") =>
    /\ call.round = 2 => result.value = call.input
    /\ call.preset = "none" => result.value = call.input

\* a second normalization has returned for a string that the first one
\* produced by composing a letter with its accent and lowercasing it (only
\* "E", "acute", "." with surrounding spaces normalizes to this string)
C21_Witness ==
  /\ call.fn = "normalize" /\ call.round = 2 /\ result.kind = "returned"
  /\ call.preset = "default" /\ call.locale = Undefined
  /\ call.input = <<"e_acute", ".">>

-----------------------------------------------------------------------------
(* Purity.                                                                 *)

\* what the function f returns for the arguments in `args`, called alone
InIsolation(f, args) ==
  CASE f = "extractOne" ->
         Returned(extractOne(args.query, args.choices, args.options))
    [] f = "extract" ->
         Returned(extract(args.query, args.choices, args.options))
    [] f = "suggest" ->
         Outcome(suggest(args.query, args.candidates, args.options))
    [] f = "tokenSortRatio" -> Returned(tokenSortRatio(args.a, args.b))
    [] f = "tokenSetRatio" -> Returned(tokenSetRatio(args.a, args.b))

-----------------------------------------------------------------------------
(* The order of suggestions.                                               *)

-----------------------------------------------------------------------------
(* extractOne under the default cutoff.                                    *)

\* extractOne has returned for a non-empty list and options that name
\* neither scoreCutoff nor score_cutoff
DefaultCutoffCall ==
  /\ call.fn = "extractOne" /\ result.kind = "returned"
  /\ Len(call.choices) > 0
  /\ "scoreCutoff" \notin DOMAIN call.options
  /\ "score_cutoff" \notin DOMAIN call.options

\* the result is a choice of the list with its score, and no choice scores
\* higher
BestScoringChoice(m) ==
  /\ m # Null
  /\ m.index \in 0..(Len(call.choices) - 1)
  /\ m.choice = call.choices[m.index + 1]
  /\ m.score = ExtractScore(m.index)
  /\ \A j \in 0..(Len(call.choices) - 1) : RatLE(ExtractScore(j), m.score)

\* C24 as claimed: under the default cutoff extractOne returns the
\* best-scoring choice of a non-empty list, whatever the scorer
C24_DefaultCutoffAlwaysMatches ==
  DefaultCutoffCall => BestScoringChoice(result.value)

\* C24: under the default cutoff extractOne returns the best-scoring choice
\* of a non-empty list whenever the scorer gives some choice a score of at
\* least 0, and null when it scores every choice below 0
C24_DefaultCutoffMatchesFromZero ==
  DefaultCutoffCall =>
    IF \E i \in 0..(Len(call.choices) - 1) : RatGE(ExtractScore(i), Zero)
    THEN BestScoringChoice(result.value)
    ELSE result.value = Null

\* a caller's scorer gave one choice a negative score and a later one a
\* positive score, and extractOne returned the later one
C24_Witness ==
  /\ DefaultCutoffCall
  /\ "scorer" \in DOMAIN call.options /\ call.options.scorer.name = "custom"
  /\ RatLT(ExtractScore(0), Zero)
  /\ result.value # Null /\ result.value.index > 0
  /\ RatGT(result.value.score, Zero)

-----------------------------------------------------------------------------
(* partialRatio and characters of two code units.                          *)

\* offset i of s lies between the two code units of one character
InsideCharacter(s, i) ==
  /\ 0 < i /\ i < Len(s)
  /\ s[i] = HighSurrogate /\ s[i + 1] = LowSurrogate

\* the input partialRatio slides over, and the one it slides
PartialLonger == IF Len(call.a) <= Len(call.b) THEN call.b ELSE call.a

PartialShorter == IF Len(call.a) <= Len(call.b) THEN call.a ELSE call.b

\* C25: partialRatio measures its inputs in code points: the input it takes
\* as the shorter one has no more code points than the other, every window
\* has as many code points as the shorter input, no window begins or ends
\* inside a character of two code units, and the result is that of the
\* sequences of code points
C25_PartialRatioByCodePoints ==
  (call.fn = "partialRatio" /\ result.kind = "returned") =>
    /\ Len(toCodePoints(PartialShorter)) <= Len(toCodePoints(PartialLonger))
    /\ \A w \in partialRatioWindows(call.a, call.b) :
         /\ ~InsideCharacter(PartialLonger, w.from)
         /\ ~InsideCharacter(PartialLonger, w.to)
         /\ Len(toCodePoints(Substring(PartialLonger, w.from, w.to)))
              = Len(toCodePoints(PartialShorter))
    /\ result.value = partialRatio(toCodePoints(call.a), toCodePoints(call.b))

-----------------------------------------------------------------------------
(* Option resolution.                                                      *)

\* the value of an option of two spellings: camelCase, else snake_case, else
\* the default
Resolve(options, camel, snake, dflt) ==
  IF camel \in DOMAIN options THEN options[camel]
  ELSE IF snake \in DOMAIN options THEN options[snake]
  ELSE dflt

\* the options of a suggest call with every option spelled out in camelCase
ResolvedSuggestOptions(options) ==
  [preset |->
     IF "preset" \in DOMAIN options THEN options.preset
     ELSE Resolve(options, "normalizePreset", "normalize_preset", "default"),
   minScore |-> Resolve(options, "minScore", "min_score", Rat(6, 10)),
   maxSuggestions |-> Resolve(options, "maxSuggestions", "max_suggestions", 5),
   preferPrefix |-> Resolve(options, "preferPrefix", "prefer_prefix", FALSE),
   jaroPrefixScale |->
     Resolve(options, "jaroPrefixScale", "jaro_prefix_scale", Rat(1, 10)),
   jaroMaxPrefix |-> Resolve(options, "jaroMaxPrefix", "jaro_max_prefix", 4)]

\* the options of an extract call with the cutoff spelled out in camelCase
ResolvedExtractOptions(options) ==
  [f \in DOMAIN options \ {"scoreCutoff", "score_cutoff"} |-> options[f]]
    @@ [scoreCutoff |-> Resolve(options, "scoreCutoff", "score_cutoff", RatInt(0))]

\* C26: suggest, extractOne and extract return what they return for the
\* options resolved by the rule: preset, else normalizePreset, else
\* normalize_preset, else 'default'; for the other options camelCase, else
\* snake_case, else the default 0.6, 5, false, 0.1, 4 and 0
C26_OptionResolution ==
  /\ (call.fn = "suggest" /\ result # Pending) =>
       result = Outcome(suggest(call.query, call.candidates,
                                ResolvedSuggestOptions(call.options)))
  /\ (call.fn = "extractOne" /\ result # Pending) =>
       result = Returned(extractOne(call.query, call.choices,
                                    ResolvedExtractOptions(call.options)))
  /\ (call.fn = "extract" /\ result # Pending) =>
       result = Returned(extract(call.query, call.choices,
                                 ResolvedExtractOptions(call.options)))

\* suggest was given minScore 1 and min_score 0 and returned nothing, having
\* left out a candidate that scores between the two
C26_Witness ==
  /\ call.fn = "suggest" /\ result.kind = "returned"
  /\ DOMAIN call.options = {"minScore", "min_score"}
  /\ call.options.minScore = RatInt(1) /\ call.options.min_score = RatInt(0)
  /\ Len(result.value) = 0
  /\ \E k \in 1..Len(call.candidates) :
       /\ RatGT(FinalScore(k), RatInt(0))
       /\ RatLT(FinalScore(k), RatInt(1))

-----------------------------------------------------------------------------
(* What a returned entry carries.                                          *)

\* the scorer and the processor of the current extractOne / extract call
CallScorer == Nullish(call.options, "scorer", [name |-> "ratio"])

CallProcessor == Nullish(call.options, "processor", defaultProcessor)

\* r names a position of the caller's list, carries the choice at that
\* position as the caller wrote it, and the score of the processed query
\* against the processed choice
CarriesOriginal(r) ==
  /\ r.index \in 0..(Len(call.choices) - 1)
  /\ r.choice = call.choices[r.index + 1]
  /\ r.score = ApplyScorer(CallScorer,
                           ApplyProcessor(CallProcessor, call.query),
                           ApplyProcessor(CallProcessor, r.choice))

\* C27: every entry extractOne or extract returns has 0 <= index <
\* len(choices), choice = choices[index] unprocessed and score =
\* scorer(processor(query), processor(choices[index])), and no index occurs
\* twice in an extract result; every suggestion's value is the candidate as
\* given and its normalizedValue is normalize(candidate, preset)
C27_EntriesCarryOriginals ==
  /\ (call.fn = "extractOne" /\ result # Pending /\ result.value # Null) =>
       CarriesOriginal(result.value)
  /\ (call.fn = "extract" /\ result # Pending) =>
       /\ \A i \in 1..Len(result.value) : CarriesOriginal(result.value[i])
       /\ \A i, j \in 1..Len(result.value) :
            i # j => result.value[i].index # result.value[j].index
  /\ (call.fn = "suggest" /\ result.kind = "returned") =>
       \A i \in 1..Len(result.value) :
         LET e == result.value[i]
         IN  /\ e.pos \in 1..Len(call.candidates)
             /\ e.value = call.candidates[e.pos]
             /\ e.normalizedValue = normalize(e.value, SuggestPreset, Undefined)

\* extract has returned, under a lowercasing processor, a choice written with
\* a capital that equals the query only once processed, in front of a choice
\* that came before it in the list
C27_Witness ==
  /\ call.fn = "extract" /\ result # Pending
  /\ CallProcessor.name = "toLowerCase"
  /\ Len(result.value) >= 2
  /\ result.value[1].choice = <<"A", "b">>
  /\ result.value[1].score = Hundred
  /\ call.query = <<"a", "b">>
  /\ result.value[2].index < result.value[1].index

-----------------------------------------------------------------------------
(* tokenSetRatio of inputs with a common token.                            *)

\* C28: tokenSetRatio is exactly 100 whenever the two inputs have a
\* whitespace-delimited token in common, so that a result below 100 is
\* returned only for inputs whose token sets are disjoint
C28_CommonTokenGivesHundred ==
  (call.fn = "tokenSetRatio" /\ result.kind = "returned") =>
    /\ TokenSet(call.a) \cap TokenSet(call.b) # {} => result.value = Hundred
    /\ RatLT(result.value, Hundred) =>
         TokenSet(call.a) \cap TokenSet(call.b) = {}

\* the inputs share one token and each has a token the other lacks, so that
\* no other comparison than that of the common token with itself gives 100
C28_Witness ==
  /\ call.fn = "tokenSetRatio" /\ result.kind = "returned"
  /\ Cardinality(TokenSet(call.a) \cap TokenSet(call.b)) = 1
  /\ TokenSet(call.a) \ TokenSet(call.b) # {}
  /\ TokenSet(call.b) \ TokenSet(call.a) # {}
  /\ result.value = Hundred

-----------------------------------------------------------------------------
(* extractOne against extract.                                             *)

\* a match of extractOne and a list of extract agree: null with the empty
\* list, and otherwise the match is the head of the list
HeadOf(one, all) ==
  IF all = <<>> THEN one = Null ELSE one = all[1]

\* C29: for the same query, choices, scorer, processor and cutoff, extractOne
\* returns null exactly when extract without a limit returns [], and
\* otherwise what extract returns first (same choice, score and index)
C29_ExtractOneIsHeadOfExtract ==
  ("history" \in DOMAIN call /\ call.fn \in {"extractOne", "extract"}
     /\ "limit" \notin DOMAIN call.options
     /\ call.history # <<>> /\ result.kind = "returned") =>
    LET before == call.history[Len(call.history)]
    IN  /\ (before.fn = "extract" /\ call.fn = "extractOne") =>
             HeadOf(result.value, before.result.value)
        /\ (before.fn = "extractOne" /\ call.fn = "extract") =>
             HeadOf(before.result.value, result.value)

\* extractOne has returned the second choice of the list, after extract
\* had returned both choices with the second one in front
C29_Witness ==
  /\ "history" \in DOMAIN call /\ call.fn = "extractOne"
  /\ "limit" \notin DOMAIN call.options /\ result.kind = "returned"
  /\ Len(call.history) = 1 /\ call.history[1].fn = "extract"
  /\ Len(call.history[1].result.value) = 2
  /\ call.history[1].result.value[1].index = 1
  /\ result.value # Null /\ result.value.index = 1

-----------------------------------------------------------------------------
(* Symmetry of the token-ratio functions.                                  *)

\* C30: partialRatio, tokenSortRatio and tokenSetRatio return for (b, a) what
\* they returned for (a, b), and partialRatio of two inputs of equal length
\* is their ratio
C30_TokenRatiosSymmetric ==
  ("before" \in DOMAIN call /\ result.kind = "returned") =>
    /\ call.before # Pending => result = call.before
    /\ (call.fn = "partialRatio" /\ Len(call.a) = Len(call.b)) =>
         result.value = ratio(call.a, call.b)

\* partialRatio has returned for a longer string against a shorter one that
\* it does not contain, after the call the other way round, with a score
\* strictly between 0 and 100
C30_Witness ==
  /\ "before" \in DOMAIN call /\ call.before # Pending
  /\ call.fn = "partialRatio" /\ result.kind = "returned"
  /\ Len(call.a) > Len(call.b)
  /\ RatLT(Zero, result.value) /\ RatLT(result.value, Hundred)

=============================================================================
